---- MODULE Spec2Model ----
(***************************************************************************)
(* Model of the metric-collection engine of monitoring-ms:                 *)
(*   common/metric_config.py  label set and its rendering                  *)
(*   common/base_metric.py    collector base class, exposition renderer    *)
(*   common/metric_types.py   polling and streaming collection loops       *)
(*   common/factory.py        registry and collector creation              *)
(*   common/main_core.py      orchestrator and GET /metrics                *)
(*   evm-service/app          the collectors and the registration table    *)
(* Latencies are Python floats holding whole seconds; they are modelled as *)
(* integers and formatted the way str(float) formats them ("30.0").        *)
(* An optional value is <<>> (None) or <<v>>.                              *)
(***************************************************************************)
EXTENDS Integers, Sequences, FiniteSets, TLC

VARIABLES
    registered_metrics, \* the table handed to create_app (input)
    config,             \* the provider list of the configuration (input)
    main_pc,            \* position of main(): "start", "gather"
    setup,              \* number of collect_metrics coroutines that ran
    registry,           \* MetricFactory._registry, in key insertion order
    class_metric_name,  \* the metric_name attribute of each collector class
    instances,          \* BaseMetric._instances
    log,                \* errors logged by collect_metrics
    raised,             \* what the last collect_metrics raised, if anything
    metrics,            \* what the last create_metrics call returned
    event,              \* the last step that received an input
    response,           \* body of the GET /metrics response being returned
    received,           \* per collector, the block notifications it read
    published,          \* per collector, the values it published
    budget,             \* probes that may still be started
    lifespan,           \* "running" until the application's lifespan exits
    push,               \* the task of push_metrics_to_grafana
    ls,                 \* a label set on its own (label specification)
    ls_op,              \* the operation last applied to ls
    gateway             \* the api-gateway: a GET /metrics request of it

vars == << registered_metrics, config, lifespan, main_pc, setup, registry,
           class_metric_name, instances, log, raised, metrics, event,
           response, received, published, budget, ls, ls_op, push,
           gateway >>

None == << >>
Some(v) == << v >>

(***************************************************************************)
(* Bounds                                                                  *)
(***************************************************************************)
MaxProbes == 2        \* probes started in a run of the application
MaxLoopProbes == 4    \* probes started in a run of a single collector
MaxLifeProbes == 2    \* probes started in a run that ends with a shutdown
MaxFairProbes == 3    \* probes started in a fairly scheduled run

(***************************************************************************)
(* Text helpers                                                            *)
(***************************************************************************)
RECURSIVE Join(_, _)
\* sep.join(parts)
Join(sep, parts) ==
    IF parts = << >> THEN ""
    ELSE IF Len(parts) = 1 THEN parts[1]
    ELSE parts[1] \o sep \o Join(sep, Tail(parts))

\* str() of a float holding a whole number
FormatFloat(v) == ToString(v) \o ".0"

\* repr() of a list of str
ReprList(names) ==
    "[" \o Join(", ", [i \in 1..Len(names) |-> "'" \o names[i] \o "'"]) \o "]"

(***************************************************************************)
(* common/metric_config.py                                                 *)
(***************************************************************************)
MetricLabelKey ==
    << "source_region", "target_region", "blockchain", "provider",
       "api_method", "response_status" >>

\* The enum MetricLabelKey is defined twice, in common/metric_config.py and
\* in common/metric_base.py; members of the two classes are never equal.
\* A member of the first is denoted by its value, a member of the second
\* by its value behind "metric_base."; KeyValue is the member's .value
metric_base_MetricLabelKey ==
    [k \in 1..Len(MetricLabelKey) |-> "metric_base." \o MetricLabelKey[k]]

KeyValue(member) ==
    IF \E k \in 1..Len(MetricLabelKey) :
           member = metric_base_MetricLabelKey[k]
    THEN MetricLabelKey[CHOOSE k \in 1..Len(MetricLabelKey) :
                            member = metric_base_MetricLabelKey[k]]
    ELSE member

MetricLabel(key, value) == [key |-> key, value |-> value]

\* the value of the label that renders under a name, as a reader of the
\* exposition sees it
LabelValue(labels, name) ==
    IF \E k \in 1..Len(labels) : KeyValue(labels[k].key) = name
    THEN Some(labels[CHOOSE k \in 1..Len(labels) :
                         /\ KeyValue(labels[k].key) = name
                         /\ \A j \in 1..(k - 1) :
                               KeyValue(labels[j].key) # name].value)
    ELSE None

\* the constructor taking the two regions in the other order
metric_base_MetricLabels_swapping_regions(source_region, target_region, blockchain, provider, api_method, response_status) ==
    << MetricLabel(metric_base_MetricLabelKey[1], target_region),
       MetricLabel(metric_base_MetricLabelKey[2], source_region),
       MetricLabel(metric_base_MetricLabelKey[3], blockchain),
       MetricLabel(metric_base_MetricLabelKey[4], provider),
       MetricLabel(metric_base_MetricLabelKey[5], api_method),
       MetricLabel(metric_base_MetricLabelKey[6], response_status) >>

\* MetricLabels.__init__ of common/metric_base.py, the class the factory
\* imports
metric_base_MetricLabels(source_region, target_region, blockchain, provider, api_method, response_status) ==
    << MetricLabel(metric_base_MetricLabelKey[1], source_region),
       MetricLabel(metric_base_MetricLabelKey[2], target_region),
       MetricLabel(metric_base_MetricLabelKey[3], blockchain),
       MetricLabel(metric_base_MetricLabelKey[4], provider),
       MetricLabel(metric_base_MetricLabelKey[5], api_method),
       MetricLabel(metric_base_MetricLabelKey[6], response_status) >>

MetricLabels(source_region, target_region, blockchain, provider, api_method, response_status) ==
    << MetricLabel("source_region", source_region),
       MetricLabel("target_region", target_region),
       MetricLabel("blockchain", blockchain),
       MetricLabel("provider", provider),
       MetricLabel("api_method", api_method),
       MetricLabel("response_status", response_status) >>

get_prometheus_labels(labels) ==
    Join(",", [i \in 1..Len(labels) |->
                 KeyValue(labels[i].key) \o "=\"" \o labels[i].value
                     \o "\""])

\* index of the first label with that key, 0 when there is none
FirstIndex(labels, label_name) ==
    IF \E i \in 1..Len(labels) : labels[i].key = label_name
    THEN CHOOSE i \in 1..Len(labels) :
            /\ labels[i].key = label_name
            /\ \A j \in 1..(i - 1) : labels[j].key # label_name
    ELSE 0

update_label_moving(labels, label_name, new_value) ==
    IF FirstIndex(labels, label_name) = 0 THEN labels
    ELSE Append(SelectSeq(labels, LAMBDA l : l.key # label_name),
                MetricLabel(label_name, new_value))

update_label(labels, label_name, new_value) ==
    IF FirstIndex(labels, label_name) = 0 THEN labels
    ELSE [labels EXCEPT ![FirstIndex(labels, label_name)].value = new_value]

add_label_appending(labels, label_name, label_value) ==
    Append(labels, MetricLabel(label_name, label_value))

add_label(labels, label_name, label_value) ==
    IF FirstIndex(labels, label_name) # 0
    THEN update_label(labels, label_name, label_value)
    ELSE Append(labels, MetricLabel(label_name, label_value))

get_label(labels, label_name) ==
    IF FirstIndex(labels, label_name) # 0
    THEN Some(labels[FirstIndex(labels, label_name)].value)
    ELSE None

(***************************************************************************)
(* common/base_metric.py                                                   *)
(***************************************************************************)
\* The object BaseMetric.__init__ leaves behind; pc is the await at which
\* the collector's task is suspended ("none": no task was created for it),
\* websocket tells whether collect_metric holds an open connection.
\* MetricConfig.__init__(timeout, interval, retry_interval=30)
MetricConfig(timeout, interval) ==
    [ timeout |-> timeout, interval |-> interval, retry_interval |-> 30 ]

\* sleep is the argument of the asyncio.sleep the collector's task is
\* waiting in, if it is waiting in one; labels_id is the identity of the
\* MetricLabels object that labels refers to
BaseMetric(cls, metric_name, labels, cfg) ==
    [ cls              |-> cls,
      metric_name      |-> metric_name,
      labels           |-> labels,
      labels_id        |-> None,
      config           |-> cfg,
      sleep            |-> None,
      latest_value     |-> None,
      last_block_hash  |-> None,
      subscription_id  |-> None,
      websocket        |-> FALSE,
      pc               |-> "none" ]

get_prometheus_format(self) ==
    self.metric_name \o "{" \o get_prometheus_labels(self.labels) \o "} "
        \o FormatFloat(self.latest_value[1])

get_influx_format(self) ==
    LET tag_str == Join(",", [i \in 1..Len(self.labels) |->
                        KeyValue(self.labels[i].key) \o "="
                            \o self.labels[i].value])
    IN  IF tag_str # ""
        THEN self.metric_name \o "," \o tag_str \o " value="
                 \o FormatFloat(self.latest_value[1])
        ELSE self.metric_name \o " value=" \o FormatFloat(self.latest_value[1])

\* the formatters raise ValueError("Metric value is not set")
get_prometheus_format_raises(self) == self.latest_value = None

get_influx_format_raises(self) == self.latest_value = None

\* the comprehension without its filter on latest_value
get_all_latest_values_raises_unfiltered(insts) ==
    \E k \in 1..Len(insts) : get_influx_format_raises(insts[k])

\* get_all_latest_values raises when the formatter raises on an instance
\* that passed the filter
get_all_latest_values_raises(insts) ==
    \E k \in 1..Len(insts) :
        /\ insts[k].latest_value # None
        /\ get_influx_format_raises(insts[k])

RECURSIVE get_all_latest_values_reversed(_)
get_all_latest_values_reversed(insts) ==
    IF insts = << >> THEN << >>
    ELSE get_all_latest_values_reversed(Tail(insts)) \o
         (IF Head(insts).latest_value # None
          THEN << get_influx_format(Head(insts)) >> ELSE << >>)

RECURSIVE get_all_latest_values_unfiltered(_)
get_all_latest_values_unfiltered(insts) ==
    IF insts = << >> THEN << >>
    ELSE (IF Head(insts).latest_value # None
          THEN << get_influx_format(Head(insts)) >>
          ELSE << Head(insts).metric_name >>)
         \o get_all_latest_values_unfiltered(Tail(insts))

RECURSIVE get_all_latest_values(_)
get_all_latest_values(insts) ==
    IF insts = << >> THEN << >>
    ELSE (IF Head(insts).latest_value # None
          THEN << get_influx_format(Head(insts)) >> ELSE << >>)
         \o get_all_latest_values(Tail(insts))

\* update_metric_value storing only the first value of a collector
update_metric_value_first_only(self, value) ==
    IF self.latest_value # None THEN self
    ELSE [self EXCEPT !.latest_value = Some(value),
                      !.labels = update_label(self.labels, "response_status",
                                              "success")]

update_metric_value(self, value) ==
    [self EXCEPT !.latest_value = Some(value),
                 !.labels = update_label(self.labels, "response_status",
                                         "success")]

handle_error_zeroing(self) ==
    [self EXCEPT !.latest_value = Some(0),
                 !.labels = update_label(self.labels, "response_status",
                                         "failed")]

handle_error_resetting(self) ==
    [self EXCEPT !.latest_value = None,
                 !.labels = update_label(self.labels, "response_status",
                                         "failed")]

handle_error(self) ==
    [self EXCEPT !.labels = update_label(self.labels, "response_status",
                                         "failed")]

(***************************************************************************)
(* evm-service/app: the collector classes and the registration table       *)
(***************************************************************************)
Classes ==
    { "WsBlockLatencyMetric", "SolanaWsBlockLatencyMetric",
      "EthCallLatencyMetric",
      "HttpBlockNumberLatencyMetric", "HttpGasPriceLatencyMetric",
      "HttpGetConsensusBlockLatency", "HttpGetBlockHeaderLatency" }

IsWebSocketMetric(cls) ==
    cls \in { "WsBlockLatencyMetric", "SolanaWsBlockLatencyMetric" }

\* Each constructor: raised tells whether __init__ raised, self is the object
\* that BaseMetric.__init__ had appended to _instances by then.
WsBlockLatencyMetric(metric_name, labels, kwargs) ==
    [ raised |-> FALSE, error |-> "",
      self |-> [BaseMetric("WsBlockLatencyMetric", metric_name, labels,
                           kwargs.config)
                  EXCEPT !.labels = update_label(labels, "api_method",
                                                 "eth_subscribe")] ]

\* WsBlockLatencyMetric of solana-service, whose unsubscribe sends
\* blockUnsubscribe and reads the reply. The module takes MetricLabelKey
\* from common/metric_base.py, so its update_label finds the label. The
\* class still names the WebSocketMetric of common/metric_base.py as its
\* base, whose loop calls neither unsubscribe nor close; it is run here by
\* the loop of common/metric_types.py, the one that calls unsubscribe
SolanaWsBlockLatencyMetric(metric_name, labels, kwargs) ==
    [ raised |-> FALSE, error |-> "",
      self |-> [BaseMetric("SolanaWsBlockLatencyMetric", metric_name, labels,
                           kwargs.config)
                  EXCEPT !.labels = update_label(labels,
                                                 metric_base_MetricLabelKey[5],
                                                 "blockSubscribe")] ]

EthCallLatencyMetric(metric_name, labels, kwargs) ==
    IF kwargs.tx_data = None
    THEN [ raised |-> TRUE,
           error |-> "'NoneType' object is not subscriptable",
           self |-> BaseMetric("EthCallLatencyMetric", metric_name, labels,
                               kwargs.config) ]
    ELSE [ raised |-> FALSE, error |-> "",
           self |-> [BaseMetric("EthCallLatencyMetric", metric_name, labels,
                                kwargs.config)
                       EXCEPT !.labels = update_label(labels, "api_method",
                                                      "eth_call")] ]

HttpCallLatencyMetricBase(cls, metric_name, labels, cfg, method) ==
    [ raised |-> FALSE, error |-> "",
      self |-> [BaseMetric(cls, metric_name, labels, cfg)
                  EXCEPT !.labels = update_label(labels, "api_method",
                                                 method)] ]

HttpBlockNumberLatencyMetric(metric_name, labels, kwargs) ==
    HttpCallLatencyMetricBase("HttpBlockNumberLatencyMetric", metric_name,
                              labels, kwargs.config, "eth_blockNumber")

HttpGasPriceLatencyMetric(metric_name, labels, kwargs) ==
    HttpCallLatencyMetricBase("HttpGasPriceLatencyMetric", metric_name,
                              labels, kwargs.config, "eth_gasPrice")

\* HttpCallLatencyMetricBase.__init__ of common/http_call_base.py, the base
\* of the collectors of ton-service: it takes MetricLabelKey from
\* common/metric_base.py, so its update_label finds the label
http_call_base_HttpCallLatencyMetricBase(cls, metric_name, labels, cfg, method) ==
    [ raised |-> FALSE, error |-> "",
      self |-> [BaseMetric(cls, metric_name, labels, cfg)
                  EXCEPT !.labels = update_label(labels,
                                                 metric_base_MetricLabelKey[5],
                                                 method)] ]

HttpGetConsensusBlockLatency(metric_name, labels, kwargs) ==
    http_call_base_HttpCallLatencyMetricBase(
        "HttpGetConsensusBlockLatency", metric_name, labels, kwargs.config,
        "getConsensusBlock")

HttpGetBlockHeaderLatency(metric_name, labels, kwargs) ==
    http_call_base_HttpCallLatencyMetricBase(
        "HttpGetBlockHeaderLatency", metric_name, labels, kwargs.config,
        "getBlockHeader")

\* metric_class(metric_name=..., labels=..., config=..., **kwargs)
Construct(cls, metric_name, labels, kwargs) ==
    CASE cls = "WsBlockLatencyMetric" ->
            WsBlockLatencyMetric(metric_name, labels, kwargs)
      [] cls = "SolanaWsBlockLatencyMetric" ->
            SolanaWsBlockLatencyMetric(metric_name, labels, kwargs)
      [] cls = "EthCallLatencyMetric" ->
            EthCallLatencyMetric(metric_name, labels, kwargs)
      [] cls = "HttpBlockNumberLatencyMetric" ->
            HttpBlockNumberLatencyMetric(metric_name, labels, kwargs)
      [] cls = "HttpGasPriceLatencyMetric" ->
            HttpGasPriceLatencyMetric(metric_name, labels, kwargs)
      [] cls = "HttpGetConsensusBlockLatency" ->
            HttpGetConsensusBlockLatency(metric_name, labels, kwargs)
      [] cls = "HttpGetBlockHeaderLatency" ->
            HttpGetBlockHeaderLatency(metric_name, labels, kwargs)

EvmMetrics ==
    << << "WsBlockLatencyMetric", "response_latency_seconds" >>,
       << "EthCallLatencyMetric", "response_latency_seconds" >>,
       << "HttpBlockNumberLatencyMetric", "response_latency_seconds" >>,
       << "HttpGasPriceLatencyMetric", "response_latency_seconds" >> >>

\* registered_metrics of evm-service/app/main.py, in dict order
EvmRegisteredMetrics ==
    << [blockchain |-> "Ethereum", metrics |-> EvmMetrics],
       [blockchain |-> "Base", metrics |-> EvmMetrics] >>

(***************************************************************************)
(* common/factory.py                                                       *)
(***************************************************************************)
\* _registry is a dict: a sequence of [blockchain, classes] in key order
RegistryKeys(reg) == [i \in 1..Len(reg) |-> reg[i].blockchain]

RegistryIndex(reg, blockchain_name) ==
    IF \E i \in 1..Len(reg) : reg[i].blockchain = blockchain_name
    THEN CHOOSE i \in 1..Len(reg) : reg[i].blockchain = blockchain_name
    ELSE 0

RECURSIVE register_metrics_prepending(_, _, _)
register_metrics_prepending(st, blockchain_name, todo) ==
    IF todo = << >> THEN st
    ELSE LET metric_class == Head(todo)[1]
             metric_name  == Head(todo)[2]
             k == RegistryIndex(st.registry, blockchain_name)
         IN  register_metrics_prepending(
                 [ registry |->
                     [st.registry EXCEPT ![k].classes =
                         << metric_class >> \o st.registry[k].classes],
                   class_metric_name |->
                     [st.class_metric_name EXCEPT ![metric_class] =
                         Some(metric_name)] ],
                 blockchain_name, Tail(todo))

\* the inner loop of register: st = [registry, class_metric_name]
RECURSIVE register_metrics(_, _, _)
register_metrics(st, blockchain_name, todo) ==
    IF todo = << >> THEN st
    ELSE LET metric_class == Head(todo)[1]
             metric_name  == Head(todo)[2]
             k == RegistryIndex(st.registry, blockchain_name)
         IN  register_metrics(
                 [ registry |->
                     [st.registry EXCEPT ![k].classes =
                         Append(st.registry[k].classes, metric_class)],
                   class_metric_name |->
                     [st.class_metric_name EXCEPT ![metric_class] =
                         Some(metric_name)] ],
                 blockchain_name, Tail(todo))

RECURSIVE register(_, _)
register(st, blockchain_metrics) ==
    IF blockchain_metrics = << >> THEN st
    ELSE LET entry == Head(blockchain_metrics)
             st1 == IF RegistryIndex(st.registry, entry.blockchain) = 0
                    THEN [st EXCEPT !.registry =
                            Append(st.registry,
                                   [blockchain |-> entry.blockchain,
                                    classes |-> << >>])]
                    ELSE st
         IN  register(register_metrics(st1, entry.blockchain, entry.metrics),
                      Tail(blockchain_metrics))

\* one MetricLabels object for all the iterations of a call
NewLabels_once(kwargs, n) == Some([call |-> kwargs.provider, n |-> 1])

\* the identity of the MetricLabels object made in an iteration of the loop
\* of create_metrics: the call, which is the one call made for a provider,
\* and the number of the iteration
NewLabels(kwargs, n) == Some([call |-> kwargs.provider, n |-> n])

RECURSIVE create_loop(_, _, _, _)
\* the for loop of create_metrics over the classes still to instantiate;
\* acc = [raised, error, metrics, created]: metrics is the list being
\* returned, created the objects appended to BaseMetric._instances. Each
\* iteration makes a MetricLabels object of its own
create_loop(acc, classes, names, kwargs) ==
    IF classes = << >> THEN acc
    ELSE LET metric_class == Head(classes)
             labels == metric_base_MetricLabels(
                           kwargs.source_region, kwargs.target_region,
                           kwargs.blockchain_name, kwargs.provider,
                           "default", "success")
             made == Construct(metric_class, names[metric_class][1], labels,
                               kwargs)
             self == [made.self EXCEPT
                        !.labels_id = NewLabels(kwargs,
                                                Len(acc.created) + 1)]
         IN  IF made.raised
             THEN [ raised  |-> TRUE, error |-> made.error,
                    metrics |-> << >>,
                    created |-> Append(acc.created, self) ]
             ELSE create_loop(
                     [acc EXCEPT !.metrics = Append(acc.metrics, self),
                                 !.created = Append(acc.created, self)],
                     Tail(classes), names, kwargs)

UnregisteredMessage(reg, blockchain_name) ==
    "No metric classes registered for blockchain '" \o blockchain_name
        \o "'. Available blockchains: " \o ReprList(RegistryKeys(reg))

create_metrics_first_only(reg, names, kwargs) ==
    IF RegistryIndex(reg, kwargs.blockchain_name) = 0
    THEN [ raised |-> TRUE,
           error |-> UnregisteredMessage(reg, kwargs.blockchain_name),
           metrics |-> << >>, created |-> << >> ]
    ELSE create_loop(
            [raised |-> FALSE, error |-> "", metrics |-> << >>,
             created |-> << >>],
            SubSeq(reg[RegistryIndex(reg, kwargs.blockchain_name)].classes,
                   1, 1),
            names, kwargs)

create_metrics_default_chain(reg, names, kwargs) ==
    create_loop(
        [raised |-> FALSE, error |-> "", metrics |-> << >>,
         created |-> << >>],
        reg[IF RegistryIndex(reg, kwargs.blockchain_name) = 0 THEN 1
            ELSE RegistryIndex(reg, kwargs.blockchain_name)].classes,
        names, kwargs)

create_metrics(reg, names, kwargs) ==
    IF RegistryIndex(reg, kwargs.blockchain_name) = 0
    THEN [ raised |-> TRUE,
           error |-> UnregisteredMessage(reg, kwargs.blockchain_name),
           metrics |-> << >>, created |-> << >> ]
    ELSE create_loop(
            [raised |-> FALSE, error |-> "", metrics |-> << >>,
             created |-> << >>],
            reg[RegistryIndex(reg, kwargs.blockchain_name)].classes,
            names, kwargs)

(***************************************************************************)
(* common/metric_types.py and evm-service/app/metrics/block_latency.py     *)
(***************************************************************************)
MAX_LATENCY_SEC == 30

\* what a probe can be given by the network
HttpLatencies == { 0, 12, 30, 31 }
BlockHashes == { "A", "B" }
\* latency is None when the block's timestamp is not a hexadecimal number
BlockLatencies == { None, Some(12), Some(30), Some(31) }
WsMessages ==
    [ kind : { "block" }, hash : BlockHashes, latency : BlockLatencies ]
    \cup { [kind |-> k, hash |-> "", latency |-> None] :
             k \in { "other", "error" } }
HttpResults ==
    [ kind : { "data" }, latency : HttpLatencies ]
    \cup { [kind |-> "error", latency |-> 0] }

\* Python truthiness of what fetch_data returns (a float)
Truthy(data) == data # 0

StatusOf(self) == LabelValue(self.labels, "response_status")[1]

ExceedsOrEquals(latency) == latency >= MAX_LATENCY_SEC

ExceedsNever(latency) == FALSE

Exceeds(latency) == latency > MAX_LATENCY_SEC

listen_for_data_no_dedup(self, msg) ==
    IF msg.kind = "error" THEN [raised |-> TRUE, data |-> None, self |-> self]
    ELSE IF msg.kind = "block"
    THEN [ raised |-> FALSE, data |-> Some(msg),
           self |-> [self EXCEPT !.last_block_hash = Some(msg.hash)] ]
    ELSE [raised |-> FALSE, data |-> None, self |-> self]

\* WsBlockLatencyMetric.listen_for_data on the message recv() returned
listen_for_data(self, msg) ==
    IF msg.kind = "error" THEN [raised |-> TRUE, data |-> None, self |-> self]
    ELSE IF msg.kind = "block"
    THEN IF Some(msg.hash) # self.last_block_hash
         THEN [ raised |-> FALSE, data |-> Some(msg),
                self |-> [self EXCEPT !.last_block_hash = Some(msg.hash)] ]
         ELSE [raised |-> FALSE, data |-> None, self |-> self]
    ELSE [raised |-> FALSE, data |-> None, self |-> self]

\* WebSocketMetric.collect_metric from the return of listen_for_data to the
\* finally clause; result "publish", "fault" or "nodata"
WsProcess(self, msg) ==
    LET got == listen_for_data(self, msg)
    IN  IF got.raised
        THEN [result |-> "fault", self |-> handle_error(got.self)]
        ELSE IF got.data = None
        THEN [result |-> "nodata", self |-> got.self]
        ELSE IF got.data[1].latency = None
        THEN [result |-> "fault", self |-> handle_error(got.self)]
        ELSE IF Exceeds(got.data[1].latency[1])
        THEN [result |-> "fault", self |-> handle_error(got.self)]
        ELSE [ result |-> "publish",
               self |-> update_metric_value(got.self,
                                            got.data[1].latency[1]) ]

\* HttpMetric.collect_metric from the return of fetch_data to the finally
\* clause; process_data returns the value it is given
HttpProcess(self, res) ==
    IF res.kind = "error"
    THEN [result |-> "fault", self |-> handle_error(self)]
    ELSE IF ~Truthy(res.latency)
    THEN [result |-> "nodata", self |-> self]
    ELSE IF Exceeds(res.latency)
    THEN [result |-> "fault", self |-> handle_error(self)]
    ELSE [ result |-> "publish",
           self |-> update_metric_value(self, res.latency) ]

(***************************************************************************)
(* The last step that was given an input: collector (or provider) index,   *)
(* the await that completed, what it returned and what the collector did   *)
(* with it, together with the collector as it was before the step.         *)
(***************************************************************************)
Event(i, step, kind, hash, latency, result, before) ==
    [ i |-> i, step |-> step, kind |-> kind, hash |-> hash,
      latency |-> latency, result |-> result, before |-> before ]

NoCollector == BaseMetric("", "", << >>, MetricConfig(0, 0))

PlainEvent(i, step, result) ==
    Event(i, step, "", "", None, result, NoCollector)

(***************************************************************************)
(* Inputs: provider configurations and registration tables                 *)
(***************************************************************************)
\* an entry of "providers"; missing is the set of keys the entry lacks (or
\* holds an empty value for), the field of a missing key is not read
Provider(name, blockchain, region, data) ==
    [name |-> name, blockchain |-> blockchain, region |-> region,
     data |-> data, missing |-> { }]

Without(provider, key) == [provider EXCEPT !.missing = @ \cup { key }]

Alpha == Provider("alpha", "Ethereum", "eu", Some("tx"))
Beta == Provider("beta", "Base", "us", Some("tx"))
\* a blockchain the table does not register
Gamma == Provider("gamma", "Solana", "us", Some("tx"))
\* no "data" entry: the eth_call collector cannot be constructed
Delta == Provider("delta", "Ethereum", "asia", None)

\* entries that lack one of the keys main() and collect_metrics read
NoName == Without(Provider("", "Ethereum", "eu", Some("tx")), "name")
NoBlockchain == Without(Provider("nochain", "", "eu", Some("tx")), "blockchain")
NoRegion == Without(Provider("noregion", "Ethereum", "", Some("tx")), "region")
NoWebsocket ==
    Without(Provider("nows", "Ethereum", "us", Some("tx")),
            "websocket_endpoint")
NoHttp ==
    Without(Provider("nohttp", "Ethereum", "us", Some("tx")), "http_endpoint")

\* a table of two blockchains with fewer definitions than the EVM one
SmallRegisteredMetrics ==
    << [blockchain |-> "Ethereum",
        metrics |-> << << "EthCallLatencyMetric", "eth_call_seconds" >>,
                       << "HttpGasPriceLatencyMetric", "gas_price_seconds" >>
                    >>],
       [blockchain |-> "Base",
        metrics |-> << << "HttpBlockNumberLatencyMetric",
                          "block_number_seconds" >> >>] >>

\* tables and configurations of the application: at most two providers
AppInputs ==
    { [table |-> EvmRegisteredMetrics, config |-> c] :
        c \in { << >>, << Alpha >>, << Gamma >>, << Delta >>,
                << Gamma, Alpha >>, << Delta, Beta >>, << Beta, Gamma >> } }
    \cup { [table |-> SmallRegisteredMetrics, config |-> << Alpha, Beta >>] }

\* a configuration and a table that run a single collector
LoopConfigs == { << Alpha >> }
LoopTables ==
    { << [blockchain |-> "Ethereum",
          metrics |-> << << c, "response_latency_seconds" >> >>] >> :
        c \in { "WsBlockLatencyMetric", "HttpGasPriceLatencyMetric" } }

SourceRegion == "home"

\* a table of one blockchain with a streaming and a polling collector, and
\* the configurations in which the second entry is Alpha or the first is
\* Alpha and the other entry lacks a key or names an unknown blockchain
LifeTable ==
    << [blockchain |-> "Ethereum",
        metrics |-> << << "WsBlockLatencyMetric", "block_seconds" >>,
                       << "HttpGasPriceLatencyMetric", "gas_price_seconds" >>
                    >>] >>
LifeConfigs ==
    { << Alpha >>, << NoName, Alpha >>, << Alpha, NoName >>,
      << NoBlockchain, Alpha >>, << Alpha, NoRegion >>, << Gamma, Alpha >>,
      << NoWebsocket, Alpha >>, << Alpha, NoHttp >> }

(***************************************************************************)
(* common/main_core.py                                                     *)
(***************************************************************************)
\* pc of the task created for a collector: the first await of its loop
FirstAwait(cls) == IF IsWebSocketMetric(cls) THEN "connect" ELSE "fetch"

RECURSIVE load_config(_)
\* ConfigLoader.load_config on the entries still to validate: the first
\* entry without an endpoint raises KeyError
load_config(providers) ==
    IF providers = << >> THEN [raised |-> FALSE, error |-> ""]
    ELSE IF "websocket_endpoint" \in Head(providers).missing
    THEN [raised |-> TRUE, error |-> "missing 'websocket_endpoint'"]
    ELSE IF "http_endpoint" \in Head(providers).missing
    THEN [raised |-> TRUE, error |-> "missing 'http_endpoint'"]
    ELSE load_config(Tail(providers))

\* main() up to asyncio.gather: load_config and MetricFactory.register;
\* an exception of load_config ends main()
MainStart ==
    /\ main_pc = "start"
    /\ response = None
    /\ IF load_config(config).raised
       THEN /\ main_pc' = "raised_load_config"
            /\ event' = PlainEvent(0, "main", "raised")
            /\ UNCHANGED << registry, class_metric_name >>
       ELSE /\ LET st == register([registry |-> registry,
                                   class_metric_name |-> class_metric_name],
                                  registered_metrics)
               IN  /\ registry' = st.registry
                   /\ class_metric_name' = st.class_metric_name
            /\ main_pc' = "gather"
            /\ event' = PlainEvent(0, "main", "ok")
    /\ UNCHANGED << registered_metrics, config, lifespan, setup, instances, log,
                    raised, metrics, response, received, published, budget,
                    ls, ls_op, push,
                    gateway >>

\* the first key of the entry that collect_metrics reads inside its try
\* block and the entry lacks, "" when it lacks none
MissingKey(provider) ==
    IF "blockchain" \in provider.missing THEN "blockchain"
    ELSE IF "region" \in provider.missing THEN "region"
    ELSE IF "websocket_endpoint" \in provider.missing
    THEN "websocket_endpoint"
    ELSE IF "http_endpoint" \in provider.missing THEN "http_endpoint"
    ELSE ""

\* the exception handler removed: what the try block raises leaves the
\* coroutine
\* config.get("timeout", 50) and config.get("interval", 60) of main(), for
\* a configuration file that gives neither
Timeout == 50

Interval == 60

collect_metrics_uncaught(provider, reg, names) ==
    LET made == create_metrics(reg, names,
                  [ blockchain_name |-> provider.blockchain,
                    provider |-> provider.name,
                    source_region |-> SourceRegion,
                    target_region |-> provider.region,
                    config |-> MetricConfig(Timeout, Interval),
                    tx_data |-> provider.data ])
    IN  IF "name" \in provider.missing
        THEN [ propagated |-> TRUE, raised |-> TRUE, error |-> "'name'",
               log |-> None, metrics |-> << >>, created |-> << >> ]
        ELSE IF MissingKey(provider) # ""
        THEN [ propagated |-> TRUE, raised |-> TRUE,
               error |-> "'" \o MissingKey(provider) \o "'",
               log |-> None, metrics |-> << >>, created |-> << >> ]
        ELSE [ propagated |-> made.raised, raised |-> made.raised,
               error |-> made.error, log |-> None,
               metrics |-> made.metrics, created |-> made.created ]

\* collect_metrics(provider, ...) up to its await of asyncio.gather:
\* propagated tells whether an exception left the coroutine, raised whether
\* one was raised at all, log is the error it logged, metrics the collectors
\* whose tasks it created, created the objects added to _instances
collect_metrics(provider, reg, names) ==
    LET made == create_metrics(reg, names,
                  [ blockchain_name |-> provider.blockchain,
                    provider |-> provider.name,
                    source_region |-> SourceRegion,
                    target_region |-> provider.region,
                    config |-> MetricConfig(Timeout, Interval),
                    tx_data |-> provider.data ])
        Logged(e) == Some("Error collecting metrics for " \o provider.name
                              \o ": " \o e)
    IN  IF "name" \in provider.missing
        THEN [ propagated |-> TRUE, raised |-> TRUE, error |-> "'name'",
               log |-> None, metrics |-> << >>, created |-> << >> ]
        ELSE IF MissingKey(provider) # ""
        THEN [ propagated |-> FALSE, raised |-> TRUE,
               error |-> "'" \o MissingKey(provider) \o "'",
               log |-> Logged("'" \o MissingKey(provider) \o "'"),
               metrics |-> << >>, created |-> << >> ]
        ELSE [ propagated |-> FALSE, raised |-> made.raised,
               error |-> made.error,
               log |-> IF made.raised THEN Logged(made.error) ELSE None,
               metrics |-> made.metrics, created |-> made.created ]

\* the collect_metrics coroutines run in configuration order, each without
\* suspending before its gather; an exception that leaves one of them ends
\* main(), whose gather leaves the other coroutines running
CollectMetrics ==
    /\ main_pc \in { "gather", "raised_gather" }
    /\ response = None
    /\ setup < Len(config)
    /\ LET out == collect_metrics(config[setup + 1], registry,
                                  class_metric_name)
       IN  /\ instances' = instances \o
                  (IF out.raised THEN out.created
                   ELSE [k \in 1..Len(out.metrics) |->
                           [out.metrics[k] EXCEPT
                              !.pc = FirstAwait(out.metrics[k].cls)]])
           /\ log' = IF out.log # None THEN Append(log, out.log[1]) ELSE log
           /\ raised' = IF out.raised THEN Some(out.error) ELSE None
           /\ metrics' = out.metrics
           /\ main_pc' = IF out.propagated THEN "raised_gather" ELSE main_pc
           /\ event' = PlainEvent(setup + 1, "collect_metrics",
                                  IF out.propagated THEN "propagated"
                                  ELSE IF out.raised THEN "raised" ELSE "ok")
    /\ received' = [k \in 1..Len(instances') |->
                       IF k <= Len(received) THEN received[k] ELSE << >>]
    /\ published' = [k \in 1..Len(instances') |->
                        IF k <= Len(published) THEN published[k] ELSE << >>]
    /\ setup' = setup + 1
    /\ UNCHANGED << registered_metrics, config, lifespan, registry,
                    class_metric_name, response, budget, ls, ls_op, push,
                    gateway >>

\* the collector tasks take their first step after every collect_metrics
\* coroutine has reached its gather
Running(i) ==
    /\ main_pc \in { "gather", "raised_gather" }
    /\ setup = Len(config)
    /\ response = None
    /\ i \in 1..Len(instances)

\* GET /metrics: the handler computes the body without suspending
GetMetrics ==
    /\ response = None
    /\ response' = Some(Join("\n", get_all_latest_values(instances)))
    /\ UNCHANGED << event, registered_metrics, config, lifespan, main_pc, setup, registry,
                    class_metric_name, instances, log, raised, metrics,
                    received, published, budget, ls, ls_op, push,
                    gateway >>

\* the response has been sent
ReturnMetrics ==
    /\ response # None
    /\ response' = None
    /\ UNCHANGED << event, registered_metrics, config, lifespan, main_pc, setup, registry,
                    class_metric_name, instances, log, raised, metrics,
                    received, published, budget, ls, ls_op, push,
                    gateway >>

(***************************************************************************)
(* The collection loops, one action per await                              *)
(***************************************************************************)
Frame == << registered_metrics, config, lifespan, main_pc, setup, registry,
            class_metric_name, log, raised, metrics, response, push,
            gateway >>

Labels == << ls, ls_op >>

\* await self.connect()
\* the sleep of the finally clause with the retry interval as its argument
finally_sleep_retry_interval(self) ==
    [self EXCEPT !.pc = "sleep", !.sleep = Some(self.config.retry_interval)]

\* await asyncio.sleep(self.config.interval) of the finally clause of both
\* loops: the task starts to wait
finally_sleep(self) ==
    [self EXCEPT !.pc = "sleep", !.sleep = Some(self.config.interval)]

WsConnect(i) ==
    /\ Running(i)
    /\ instances[i].pc = "connect"
    /\ budget > 0
    /\ budget' = budget - 1
    /\ \E ok \in BOOLEAN :
         IF ok
         THEN /\ instances' = [instances EXCEPT ![i].pc = "subscribe",
                                                ![i].websocket = TRUE]
              /\ event' = Event(i, "connect", "ok", "", None, "ok",
                                instances[i])
         ELSE /\ instances' = [instances EXCEPT
                                 ![i] = finally_sleep(
                                            handle_error(instances[i]))]
              /\ event' = Event(i, "connect", "error", "", None, "fault",
                                instances[i])
    /\ UNCHANGED << Frame, Labels, received, published >>

\* await self.subscribe(websocket)
WsSubscribe(i) ==
    /\ Running(i)
    /\ instances[i].pc = "subscribe"
    /\ \E ok \in BOOLEAN :
         IF ok
         THEN /\ instances' =
                   [instances EXCEPT
                      ![i].pc = "listen",
                      ![i].subscription_id =
                          IF instances[i].cls = "SolanaWsBlockLatencyMetric"
                          THEN Some(1) ELSE @]
              /\ event' = Event(i, "subscribe", "ok", "", None, "ok",
                                instances[i])
         ELSE /\ instances' = [instances EXCEPT
                                 ![i] = [handle_error(instances[i])
                                           EXCEPT !.pc = "close"]]
              /\ event' = Event(i, "subscribe", "error", "", None, "fault",
                                instances[i])
    /\ UNCHANGED << Frame, Labels, received, published, budget >>

\* the inner loop of the WebSocketMetric of common/metric_base.py: a
\* message that yields no data is followed by another read on the same
\* connection
WsListen_until_data(i) ==
    /\ Running(i)
    /\ instances[i].pc = "listen"
    /\ \E msg \in WsMessages :
         LET done == WsProcess(instances[i], msg)
         IN  /\ instances' = [instances EXCEPT
                                ![i] = [done.self EXCEPT
                                          !.pc = IF done.result = "nodata"
                                                 THEN "listen" ELSE "close"]]
             /\ event' = Event(i, "listen", msg.kind, msg.hash, msg.latency,
                               done.result, instances[i])
             /\ received' = IF msg.kind = "block"
                            THEN [received EXCEPT ![i] =
                                    Append(@, [id |-> msg.hash,
                                               latency |-> msg.latency])]
                            ELSE received
             /\ published' = IF done.result = "publish"
                             THEN [published EXCEPT ![i] =
                                     Append(@, [id |-> msg.hash,
                                                value |->
                                                  done.self.latest_value[1]])]
                             ELSE published
    /\ UNCHANGED << Frame, Labels, budget >>

\* data = await self.listen_for_data(websocket), then the rest of the try
\* block and the except clause, up to the await of websocket.close()
WsListen(i) ==
    /\ Running(i)
    /\ instances[i].pc = "listen"
    /\ \E msg \in WsMessages :
         LET done == WsProcess(instances[i], msg)
         IN  /\ instances' = [instances EXCEPT
                                ![i] = [done.self EXCEPT !.pc = "close"]]
             /\ event' = Event(i, "listen", msg.kind, msg.hash, msg.latency,
                               done.result, instances[i])
             /\ received' = IF msg.kind = "block"
                            THEN [received EXCEPT ![i] =
                                    Append(@, [id |-> msg.hash,
                                               latency |-> msg.latency])]
                            ELSE received
             /\ published' = IF done.result = "publish"
                             THEN [published EXCEPT ![i] =
                                     Append(@, [id |-> msg.hash,
                                                value |->
                                                  done.self.latest_value[1]])]
                             ELSE published
    /\ UNCHANGED << Frame, Labels, budget >>

\* what the inner try block of the finally clause can do: unsubscribe of
\* the EVM collector does nothing; unsubscribe of the Solana collector
\* sends and receives, and can raise as close() can
CleanupOutcomes(cls) ==
    IF cls = "SolanaWsBlockLatencyMetric"
    THEN { "ok", "unsubscribe_error", "close_error" }
    ELSE { "ok", "close_error" }

\* a fault of the cleanup handled as a fault of the probe, the value lost
cleanup_resetting(self, outcome) ==
    IF outcome = "ok" THEN [self EXCEPT !.websocket = FALSE]
    ELSE [handle_error_resetting(self) EXCEPT !.websocket = FALSE]

\* await self.unsubscribe(websocket); await websocket.close(), in one try
\* block whose except clause logs: when unsubscribe raises, close() is not
\* called. websocket tells that a connection was made on which close()
\* has not been called
cleanup(self, outcome) ==
    IF outcome = "unsubscribe_error" THEN self
    ELSE [self EXCEPT !.websocket = FALSE]

\* the step of the cleanup that the event names
CleanupStep(outcome) ==
    IF outcome = "unsubscribe_error" THEN "unsubscribe" ELSE "close"

\* the finally clause: the cleanup, a fault of which is only logged, up
\* to the sleep
WsClose(i) ==
    /\ Running(i)
    /\ instances[i].pc = "close"
    /\ \E outcome \in CleanupOutcomes(instances[i].cls) :
         /\ instances' = [instances EXCEPT
                            ![i] = finally_sleep(
                                       cleanup(instances[i], outcome))]
         /\ event' = Event(i, CleanupStep(outcome),
                           IF outcome = "ok" THEN "ok" ELSE "error", "",
                           None, "ok", instances[i])
    /\ UNCHANGED << Frame, Labels, received, published, budget >>

\* the result of every fetch stored in every polling collector, as if
\* latest_value were an attribute of the class
HttpFetch_writing_all(i) ==
    /\ Running(i)
    /\ instances[i].pc = "fetch"
    /\ budget > 0
    /\ budget' = budget - 1
    /\ \E res \in HttpResults :
         LET done == HttpProcess(instances[i], res)
         IN  /\ instances' =
                   [j \in 1..Len(instances) |->
                      IF j = i THEN finally_sleep(done.self)
                      ELSE IF IsWebSocketMetric(instances[j].cls)
                      THEN instances[j]
                      ELSE [instances[j] EXCEPT
                              !.latest_value = done.self.latest_value]]
             /\ event' = Event(i, "fetch", res.kind, "",
                               IF res.kind = "data" THEN Some(res.latency)
                               ELSE None,
                               done.result, instances[i])
             /\ published' = IF done.result = "publish"
                             THEN [published EXCEPT ![i] =
                                     Append(@, [id |-> "",
                                                value |->
                                                  done.self.latest_value[1]])]
                             ELSE published
    /\ UNCHANGED << Frame, Labels, received >>

\* data = await self.fetch_data(), then the rest of the try block and the
\* except clause, up to the sleep of the finally clause
HttpFetch(i) ==
    /\ Running(i)
    /\ instances[i].pc = "fetch"
    /\ budget > 0
    /\ budget' = budget - 1
    /\ \E res \in HttpResults :
         LET done == HttpProcess(instances[i], res)
         IN  /\ instances' = [instances EXCEPT
                                ![i] = finally_sleep(done.self)]
             /\ event' = Event(i, "fetch", res.kind, "",
                               IF res.kind = "data" THEN Some(res.latency)
                               ELSE None,
                               done.result, instances[i])
             /\ published' = IF done.result = "publish"
                             THEN [published EXCEPT ![i] =
                                     Append(@, [id |-> "",
                                                value |->
                                                  done.self.latest_value[1]])]
                             ELSE published
    /\ UNCHANGED << Frame, Labels, received >>

\* the loop left after a probe that faulted
Wake_giving_up(i) ==
    /\ Running(i)
    /\ instances[i].pc = "sleep"
    /\ budget > 0
    /\ ~(event.i = i /\ event.result = "fault")
    /\ instances' = [instances EXCEPT
                       ![i].pc = FirstAwait(instances[i].cls),
                       ![i].sleep = None]
    /\ UNCHANGED << Frame, Labels, event, received, published, budget >>

\* await asyncio.sleep(self.config.interval) returns
Wake(i) ==
    /\ Running(i)
    /\ instances[i].pc = "sleep"
    /\ budget > 0
    /\ instances' = [instances EXCEPT
                       ![i].pc = FirstAwait(instances[i].cls),
                       ![i].sleep = None]
    /\ UNCHANGED << Frame, Labels, event, received, published, budget >>

(***************************************************************************)
(* evm-service/app/metrics/eth_call_latency.py: the probe of               *)
(* EthCallLatencyMetric step by step. get_web3_instance is an ordinary     *)
(* function: web3.is_connected() sends its request and waits for the reply *)
(* on the thread of the event loop, which runs no other callback until the *)
(* call returns. web3.eth.call runs in a worker thread (asyncio.to_thread) *)
(* and is awaited.                                                         *)
(***************************************************************************)
\* the thread of the event loop is inside a synchronous call
Blocked == \E j \in 1..Len(instances) : instances[j].pc = "is_connected"

\* a step of a task or of a request handler: a callback of the event loop,
\* run when the loop's thread is free
RunsOnLoop(A) == ~Blocked /\ A

\* fetch_data up to the request that web3.is_connected() sends from
\* get_web3_instance
GetWeb3Instance(i) ==
    /\ Running(i)
    /\ instances[i].cls = "EthCallLatencyMetric"
    /\ instances[i].pc = "fetch"
    /\ budget > 0
    /\ budget' = budget - 1
    /\ instances' = [instances EXCEPT ![i].pc = "is_connected"]
    /\ event' = Event(i, "get_web3_instance", "", "", None, "ok",
                      instances[i])
    /\ UNCHANGED << Frame, Labels, received, published >>

\* web3.is_connected() returns: get_web3_instance raises ValueError when it
\* returned False, otherwise fetch_data goes on to await the eth_call
IsConnected(i) ==
    /\ i \in 1..Len(instances)
    /\ instances[i].pc = "is_connected"
    /\ \E ok \in BOOLEAN :
         IF ok
         THEN /\ instances' = [instances EXCEPT ![i].pc = "eth_call"]
              /\ event' = Event(i, "is_connected", "ok", "", None, "ok",
                                instances[i])
         ELSE /\ instances' = [instances EXCEPT
                                 ![i] = finally_sleep(
                                            handle_error(instances[i]))]
              /\ event' = Event(i, "is_connected", "error", "", None,
                                "fault", instances[i])
    /\ UNCHANGED << Frame, Labels, received, published, budget >>

\* await asyncio.to_thread(web3.eth.call, ...) returns or raises; an empty
\* response raises ValueError; then the rest of collect_metric up to the
\* sleep of the finally clause
SimulateTransaction(i) ==
    /\ Running(i)
    /\ instances[i].pc = "eth_call"
    /\ \E res \in HttpResults :
         LET done == HttpProcess(instances[i], res)
         IN  /\ instances' = [instances EXCEPT
                                ![i] = finally_sleep(done.self)]
             /\ event' = Event(i, "fetch", res.kind, "",
                               IF res.kind = "data" THEN Some(res.latency)
                               ELSE None,
                               done.result, instances[i])
             /\ published' = IF done.result = "publish"
                             THEN [published EXCEPT ![i] =
                                     Append(@, [id |-> "",
                                                value |->
                                                  done.self.latest_value[1]])]
                             ELSE published
    /\ UNCHANGED << Frame, Labels, received, budget >>

(***************************************************************************)
(* common/metric_base.py: the engine of ton-service. Its collectors, label *)
(* set and label keys all come from this one module.                       *)
(***************************************************************************)
\* BaseMetric.update_metric_value of common/metric_base.py: the value is
\* stored, the label set is not touched
metric_base_update_metric_value(self, value) ==
    [self EXCEPT !.latest_value = Some(value)]

\* BaseMetric.handle_error of common/metric_base.py up to its sleep
metric_base_handle_error(self) ==
    [self EXCEPT !.labels = update_label(self.labels,
                                         metric_base_MetricLabelKey[6],
                                         "failed"),
                 !.pc = "retry_sleep",
                 !.sleep = Some(self.config.retry_interval)]

\* HttpMetric.collect_metric of common/metric_base.py from the return of
\* fetch_data to the next await: no bound is applied to the value
metric_base_HttpProcess(self, res) ==
    IF res.kind = "error"
    THEN [result |-> "fault", self |-> metric_base_handle_error(self)]
    ELSE IF ~Truthy(res.latency)
    THEN [result |-> "nodata", self |-> finally_sleep(self)]
    ELSE [ result |-> "publish",
           self |-> finally_sleep(
                        metric_base_update_metric_value(self, res.latency)) ]

\* data = await self.fetch_data() and what follows it
metric_base_HttpFetch(i) ==
    /\ Running(i)
    /\ instances[i].pc = "fetch"
    /\ budget > 0
    /\ budget' = budget - 1
    /\ \E res \in HttpResults :
         LET done == metric_base_HttpProcess(instances[i], res)
         IN  /\ instances' = [instances EXCEPT ![i] = done.self]
             /\ event' = Event(i, "fetch", res.kind, "",
                               IF res.kind = "data" THEN Some(res.latency)
                               ELSE None,
                               done.result, instances[i])
             /\ published' = IF done.result = "publish"
                             THEN [published EXCEPT ![i] =
                                     Append(@, [id |-> "",
                                                value |->
                                                  done.self.latest_value[1]])]
                             ELSE published
    /\ UNCHANGED << Frame, Labels, received >>

\* await asyncio.sleep(self.config.retry_interval) of handle_error returns:
\* the loop goes on to its sleep of config.interval
metric_base_RetryWake(i) ==
    /\ Running(i)
    /\ instances[i].pc = "retry_sleep"
    /\ instances' = [instances EXCEPT ![i] = finally_sleep(instances[i])]
    /\ UNCHANGED << Frame, Labels, event, received, published, budget >>

\* get_prometheus_format of common/metric_base.py: the value as str()
\* gives it
metric_base_get_prometheus_format(self) ==
    self.metric_name \o "{" \o get_prometheus_labels(self.labels) \o "} "
        \o FormatFloat(self.latest_value[1])

RECURSIVE metric_base_get_all_latest_values(_)
metric_base_get_all_latest_values(insts) ==
    IF insts = << >> THEN << >>
    ELSE (IF Head(insts).latest_value # None
          THEN << metric_base_get_prometheus_format(Head(insts)) >>
          ELSE << >>)
         \o metric_base_get_all_latest_values(Tail(insts))

\* get_metrics of ton-service/app/main.py
TonGetMetrics ==
    /\ response = None
    /\ response' =
           Some(Join("\n", metric_base_get_all_latest_values(instances)))
    /\ UNCHANGED << event, registered_metrics, config, lifespan, main_pc,
                    setup, registry, class_metric_name, instances, log,
                    raised, metrics, received, published, budget, ls, ls_op,
                    push, gateway >>

(***************************************************************************)
(* Shutdown: lifespan() cancels the task of main(); the gather main() is   *)
(* waiting in cancels the collect_metrics coroutines, whose gathers cancel *)
(* the collector tasks. CancelledError derives from BaseException.         *)
(***************************************************************************)
\* pc of a task into which CancelledError was thrown: the awaits of the
\* finally clause it still executes, and the end of the task
CancelledPcs == { "cancelled_close", "cancelled_sleep", "done" }

\* CancelledError handled by "except Exception", as a fault of the probe
CancelledError_as_fault(self) ==
    IF self.pc \in { "subscribe", "listen" }
    THEN [handle_error(self) EXCEPT !.pc = "close"]
    ELSE finally_sleep(handle_error(self))

\* the finally clause left without the calls on the connection
CancelledError_without_cleanup(self) ==
    IF self.pc \in { "connect", "fetch", "subscribe", "listen" }
    THEN [finally_sleep(self) EXCEPT !.pc = "cancelled_sleep"]
    ELSE [self EXCEPT !.pc = "done", !.sleep = None]

\* collect_metric from the await at which CancelledError is thrown to the
\* next await: no except clause matches; the finally clause of the probe
\* calls unsubscribe and awaits close() when a connection was made, then
\* awaits the sleep; thrown at an await of the finally clause itself it
\* ends the task
CancelledError(self) ==
    IF self.pc \in { "connect", "fetch" }
    THEN [finally_sleep(self) EXCEPT !.pc = "cancelled_sleep"]
    ELSE IF self.pc \in { "subscribe", "listen" }
    THEN [self EXCEPT !.pc = "cancelled_close"]
    ELSE [self EXCEPT !.pc = "done", !.sleep = None]

\* the code of lifespan() after its yield: main_task.cancel(); it cancels
\* nothing when main() has ended
LifespanExit ==
    /\ lifespan = "running"
    /\ response = None
    /\ main_pc # "start"
    /\ main_pc = "raised_load_config" \/ setup = Len(config)
    /\ lifespan' = "exited"
    /\ main_pc' = IF main_pc = "gather" THEN "cancelled" ELSE main_pc
    /\ instances' = IF main_pc = "gather"
                    THEN [i \in 1..Len(instances) |->
                            IF instances[i].pc = "none" THEN instances[i]
                            ELSE CancelledError(instances[i])]
                    ELSE instances
    /\ event' = PlainEvent(0, "lifespan_exit",
                           IF main_pc = "gather" THEN "cancelled"
                           ELSE "done")
    /\ push' = IF push.pc = "none" THEN push
               ELSE [push EXCEPT !.pc = "cancelled"]
    /\ UNCHANGED << registered_metrics, config, setup, registry,
                    class_metric_name, log, raised, metrics, response,
                    received, published, budget, ls, ls_op, gateway >>

\* the cleanup of the finally clause in a cancelled task; a fault is only
\* logged
CancelledClose(i) ==
    /\ response = None
    /\ i \in 1..Len(instances)
    /\ instances[i].pc = "cancelled_close"
    /\ \E outcome \in CleanupOutcomes(instances[i].cls) :
         /\ instances' = [instances EXCEPT
                            ![i] = [finally_sleep(
                                        cleanup(instances[i], outcome))
                                      EXCEPT !.pc = "cancelled_sleep"]]
         /\ event' = Event(i, "cancelled_" \o CleanupStep(outcome),
                           IF outcome = "ok" THEN "ok" ELSE "error",
                           "", None, "ok", instances[i])
    /\ UNCHANGED << Frame, Labels, received, published, budget >>

\* the sleep of the finally clause returns in a cancelled task: the
\* CancelledError leaves the loop and the task ends
CancelledSleep(i) ==
    /\ response = None
    /\ i \in 1..Len(instances)
    /\ instances[i].pc = "cancelled_sleep"
    /\ instances' = [instances EXCEPT ![i].pc = "done",
                                      ![i].sleep = None]
    /\ UNCHANGED << Frame, Labels, event, received, published, budget >>

(***************************************************************************)
(* A label set on its own, with update_label and add_label applied to it   *)
(***************************************************************************)
LabelOp(op, key, value, before) ==
    [op |-> op, key |-> key, value |-> value, before |-> before]

NoLabelOp == LabelOp("none", "", "", << >>)

LabelValues == { "eth_call", "failed" }

\* the label lists the operations are applied to: what the constructor
\* builds, and the list of five labels of the specification's rendering
\* example (no target_region), to which add_label can append
LabelLists ==
    { MetricLabels("a", tr, "Ethereum", "p", "default", "success") :
        tr \in { "eu", "us" } }
    \cup { << MetricLabel("source_region", "a"),
              MetricLabel("blockchain", "Ethereum"),
              MetricLabel("provider", "p"),
              MetricLabel("api_method", "default"),
              MetricLabel("response_status", "success") >> }

UpdateLabel ==
    /\ \E k \in 1..Len(MetricLabelKey), v \in LabelValues :
          /\ ls' = update_label(ls, MetricLabelKey[k], v)
          /\ ls_op' = LabelOp("update_label", MetricLabelKey[k], v, ls)
    /\ UNCHANGED << Frame, instances, event, received, published, budget >>

AddLabel ==
    /\ \E k \in 1..Len(MetricLabelKey), v \in LabelValues :
          /\ ls' = add_label(ls, MetricLabelKey[k], v)
          /\ ls_op' = LabelOp("add_label", MetricLabelKey[k], v, ls)
    /\ UNCHANGED << Frame, instances, event, received, published, budget >>

\* get_label: the set is left as it is, value holds what was returned
GetLabel ==
    /\ \E k \in 1..Len(MetricLabelKey) :
          ls_op' = LabelOp("get_label", MetricLabelKey[k],
                           get_label(ls, MetricLabelKey[k]), ls)
    /\ UNCHANGED << Frame, instances, event, received, published, budget,
                    ls >>

(***************************************************************************)
(* push_metrics_to_grafana, one action per await                           *)
(***************************************************************************)
MAX_RETRIES == 3

RETRY_DELAY == 10

PUSH_INTERVAL == 60

\* what session.post gives: a response with a status, or an exception
\* (a transport error, or the timeout of 10 seconds)
PostOutcomes ==
    { [kind |-> "response", status |-> st] : st \in { 200, 204, 500 } }
    \cup { [kind |-> "exception", status |-> 0] }

\* response.status in (200, 204)
Accepted(outcome) ==
    outcome.kind = "response" /\ outcome.status \in { 200, 204 }

\* lifespan() creates no push task unless GRAFANA_URL, GRAFANA_USER and
\* GRAFANA_API_KEY are set
NoPushTask ==
    [ pc |-> "none", metrics_text |-> "", attempt |-> 0, posts |-> << >>,
      sleeps |-> << >>, periods |-> 0 ]

\* the task created by lifespan(), before its first step. posts are the
\* POSTs made in the current period and sleeps the arguments of the calls
\* of asyncio.sleep made in it, the last of them still waited in; periods
\* is the number of periods that may still be started
PushTask(periods) == [NoPushTask EXCEPT !.pc = "period", !.periods = periods]

\* the top of the while loop up to the first await: the body is rendered
\* and, when it is empty, the period goes straight to its sleep
push_period(task, insts) ==
    LET metrics_text == Join("\n", get_all_latest_values(insts))
    IN  IF metrics_text # ""
        THEN [task EXCEPT !.metrics_text = metrics_text, !.attempt = 1,
                          !.posts = << >>, !.sleeps = << >>, !.pc = "post",
                          !.periods = @ - 1]
        ELSE [task EXCEPT !.metrics_text = metrics_text, !.attempt = 0,
                          !.posts = << >>, !.sleeps = << PUSH_INTERVAL >>,
                          !.pc = "sleep", !.periods = @ - 1]

\* an attempt that sleeps RETRY_DELAY after the last attempt as well
push_attempt_delaying_last(task, outcome) ==
    LET posts == Append(task.posts,
                        [data |-> task.metrics_text, outcome |-> outcome])
    IN  IF Accepted(outcome)
        THEN [task EXCEPT !.posts = posts, !.pc = "sleep",
                          !.sleeps = Append(@, PUSH_INTERVAL)]
        ELSE [task EXCEPT !.posts = posts, !.pc = "retry_sleep",
                          !.sleeps = Append(@, RETRY_DELAY)]

\* one attempt of the for loop, from the return of session.post to the
\* next await: break on 200 or 204, otherwise log, and sleep RETRY_DELAY
\* if attempts remain; after the loop, sleep PUSH_INTERVAL
push_attempt(task, outcome) ==
    LET posts == Append(task.posts,
                        [data |-> task.metrics_text, outcome |-> outcome])
    IN  IF Accepted(outcome) \/ ~(task.attempt < MAX_RETRIES)
        THEN [task EXCEPT !.posts = posts, !.pc = "sleep",
                          !.sleeps = Append(@, PUSH_INTERVAL)]
        ELSE [task EXCEPT !.posts = posts, !.pc = "retry_sleep",
                          !.sleeps = Append(@, RETRY_DELAY)]

PushFrame == << registered_metrics, config, lifespan, main_pc, setup,
               registry, class_metric_name, instances, log, raised, metrics,
               event, response, received, published, budget, ls, ls_op,
               gateway >>

\* metrics_text = "\n".join(BaseMetric.get_all_latest_values())
PushPeriod ==
    /\ push.pc = "period"
    /\ response = None
    /\ push.periods > 0
    /\ push' = push_period(push, instances)
    /\ UNCHANGED PushFrame

\* async with session.post(GRAFANA_URL, ..., data=metrics_text, ...)
PushPost ==
    /\ push.pc = "post"
    /\ response = None
    /\ \E outcome \in PostOutcomes : push' = push_attempt(push, outcome)
    /\ UNCHANGED PushFrame

\* await asyncio.sleep(RETRY_DELAY) returns: the next attempt
PushRetry ==
    /\ push.pc = "retry_sleep"
    /\ response = None
    /\ push' = [push EXCEPT !.attempt = @ + 1, !.pc = "post"]
    /\ UNCHANGED PushFrame

\* await asyncio.sleep(PUSH_INTERVAL) returns: the next period
PushWake ==
    /\ push.pc = "sleep"
    /\ response = None
    /\ push' = [push EXCEPT !.pc = "period"]
    /\ UNCHANGED PushFrame

(***************************************************************************)
(* api-gateway/app: GET /metrics of the gateway, one action per upstream   *)
(* response                                                                *)
(***************************************************************************)
\* what session.get(url) gives: a response with a status and a text, or an
\* exception (the upstream cannot be reached)
UpstreamReplies(url) ==
    { [kind |-> "response", status |-> 200, text |-> t] :
        t \in { url \o "_up 1.0", "" } }
    \cup { [kind |-> "response", status |-> st, text |-> ""] :
             st \in { 204, 404, 500 } }
    \cup { [kind |-> "exception", status |-> 0, text |-> ""] }

\* HttpClient.get returning the text of every response it does not raise on
HttpClient_get_any_status(reply) ==
    IF reply.kind = "exception" THEN [raised |-> TRUE, value |-> None]
    ELSE IF reply.status >= 400 THEN [raised |-> TRUE, value |-> None]
    ELSE [raised |-> FALSE, value |-> Some(reply.text)]

\* HttpClient.get: the text on status 200; otherwise raise_for_status(),
\* which raises on a status of 400 or more, and after it the function ends
\* without a return statement
HttpClient_get(reply) ==
    IF reply.kind = "exception" THEN [raised |-> TRUE, value |-> None]
    ELSE IF reply.status = 200
    THEN [raised |-> FALSE, value |-> Some(reply.text)]
    ELSE IF reply.status >= 400 THEN [raised |-> TRUE, value |-> None]
    ELSE [raised |-> FALSE, value |-> None]

\* "\n".join(results) of fetch_metrics: str.join raises TypeError on an
\* item that is None
join_results(results) ==
    IF \E k \in 1..Len(results) : results[k] = None
    THEN [raised |-> TRUE, text |-> ""]
    ELSE [raised |-> FALSE,
          text |-> Join("\n", [k \in 1..Len(results) |-> results[k][1]])]

\* the response of the gateway: the body of a PlainTextResponse, or the
\* HTTPException(status_code=500) that get_metrics raises
GatewayReply(status, body) == [status |-> status, body |-> body]

\* no gateway is running
NoGateway ==
    [ pc |-> "none", providers |-> << >>, replies |-> << >>,
      order |-> << >>, reply |-> None ]

\* the gateway with the metrics_url entries of its configuration; replies
\* holds what each upstream fetch of the request got, order the upstreams
\* in the order in which their fetches completed
Gateway(providers) ==
    [ pc |-> "idle", providers |-> providers,
      replies |-> [k \in 1..Len(providers) |-> None],
      order |-> << >>, reply |-> None ]

GatewayFrame ==
    << registered_metrics, config, lifespan, main_pc, setup, registry,
       class_metric_name, instances, log, raised, metrics, event, response,
       received, published, budget, ls, ls_op, push >>

\* get_metrics up to the gather of fetch_metrics: one HttpClient.get per
\* provider; without providers the body is empty
GatewayGetMetrics ==
    /\ gateway.pc = "idle"
    /\ gateway' =
          IF gateway.providers = << >>
          THEN [Gateway(gateway.providers) EXCEPT
                  !.pc = "replied",
                  !.reply = Some(GatewayReply(200, Some("")))]
          ELSE [Gateway(gateway.providers) EXCEPT !.pc = "gather"]
    /\ UNCHANGED GatewayFrame

\* one HttpClient.get completes: an exception leaves the gather at once
\* and get_metrics answers 500; the last result lets the gather return
\* the results in the order of the providers, which are then joined
GatewayFetch(k) ==
    /\ gateway.pc = "gather"
    /\ k \in 1..Len(gateway.providers)
    /\ gateway.replies[k] = None
    /\ \E r \in UpstreamReplies(gateway.providers[k]) :
         LET replies == [gateway.replies EXCEPT ![k] = Some(r)]
             order == Append(gateway.order, k)
             results == [j \in 1..Len(replies) |->
                           IF replies[j] = None THEN None
                           ELSE HttpClient_get(replies[j][1]).value]
             joined == join_results(results)
         IN  gateway' =
               IF HttpClient_get(r).raised
               THEN [gateway EXCEPT
                       !.replies = replies, !.order = order,
                       !.pc = "replied",
                       !.reply = Some(GatewayReply(500, None))]
               ELSE IF \E j \in 1..Len(replies) : replies[j] = None
               THEN [gateway EXCEPT !.replies = replies, !.order = order]
               ELSE [gateway EXCEPT
                       !.replies = replies, !.order = order,
                       !.pc = "replied",
                       !.reply = IF joined.raised
                                 THEN Some(GatewayReply(500, None))
                                 ELSE Some(GatewayReply(200,
                                                        Some(joined.text)))]
    /\ UNCHANGED GatewayFrame

\* the response has been sent
GatewayReturn ==
    /\ gateway.pc = "replied"
    /\ gateway' = Gateway(gateway.providers)
    /\ UNCHANGED GatewayFrame

(***************************************************************************)
(* Specification of the application                                        *)
(***************************************************************************)
InitCommon ==
    /\ main_pc = "start"
    /\ lifespan = "running"
    /\ setup = 0
    /\ registry = << >>
    /\ class_metric_name = [c \in Classes |-> None]
    /\ instances = << >>
    /\ log = << >>
    /\ raised = None
    /\ metrics = << >>
    /\ event = PlainEvent(0, "init", "ok")
    /\ response = None
    /\ received = << >>
    /\ published = << >>

Init ==
    /\ InitCommon
    /\ \E input \in AppInputs :
          /\ registered_metrics = input.table
          /\ config = input.config
    /\ budget = MaxProbes
    /\ ls = << >>
    /\ ls_op = NoLabelOp
    /\ push = NoPushTask
    /\ gateway = NoGateway

Next ==
    \/ MainStart
    \/ CollectMetrics
    \/ GetMetrics
    \/ ReturnMetrics
    \/ \E i \in 1..Len(instances) : WsConnect(i)
    \/ \E i \in 1..Len(instances) : WsSubscribe(i)
    \/ \E i \in 1..Len(instances) : WsListen(i)
    \/ \E i \in 1..Len(instances) : WsClose(i)
    \/ \E i \in 1..Len(instances) : HttpFetch(i)
    \/ \E i \in 1..Len(instances) : Wake(i)

Spec == Init /\ [][Next]_vars

\* a single collector, followed through several probes
InitLoop ==
    /\ InitCommon
    /\ registered_metrics \in LoopTables
    /\ config \in LoopConfigs
    /\ budget = MaxLoopProbes
    /\ ls = << >>
    /\ ls_op = NoLabelOp
    /\ push = NoPushTask
    /\ gateway = NoGateway

SpecLoop == InitLoop /\ [][Next]_vars

\* the event loop runs every callback that is ready, in the order in which
\* they became ready: a step that is possible again and again is taken
FairLoop ==
    /\ SF_vars(MainStart)
    /\ SF_vars(CollectMetrics)
    /\ WF_vars(ReturnMetrics)
    /\ \A i \in 1..1 :
          /\ SF_vars(WsConnect(i)) /\ SF_vars(WsSubscribe(i))
          /\ SF_vars(WsListen(i)) /\ SF_vars(WsClose(i))
          /\ SF_vars(HttpFetch(i)) /\ SF_vars(Wake(i))

InitFair ==
    /\ InitCommon
    /\ registered_metrics \in LoopTables
    /\ config \in LoopConfigs
    /\ budget = MaxFairProbes
    /\ ls = << >>
    /\ ls_op = NoLabelOp
    /\ push = NoPushTask
    /\ gateway = NoGateway

SpecLoopFair == InitFair /\ [][Next]_vars /\ FairLoop

\* the application from start to shutdown
InitLife ==
    /\ InitCommon
    /\ registered_metrics = LifeTable
    /\ config \in LifeConfigs
    /\ budget = MaxLifeProbes
    /\ ls = << >>
    /\ ls_op = NoLabelOp
    /\ push = NoPushTask
    /\ gateway = NoGateway

NextLife ==
    \/ Next
    \/ LifespanExit
    \/ \E i \in 1..Len(instances) : CancelledClose(i)
    \/ \E i \in 1..Len(instances) : CancelledSleep(i)

SpecLife == InitLife /\ [][NextLife]_vars

\* a single streaming collector, of either kind, or a polling one
MaxCleanupProbes == 3

SolanaTable ==
    << [blockchain |-> "Solana",
        metrics |-> << << "SolanaWsBlockLatencyMetric",
                          "response_latency_seconds" >> >>] >>

InitCleanup ==
    /\ InitCommon
    /\ \/ registered_metrics \in LoopTables /\ config = << Alpha >>
       \/ registered_metrics = SolanaTable /\ config = << Gamma >>
    /\ budget = MaxCleanupProbes
    /\ ls = << >>
    /\ ls_op = NoLabelOp
    /\ push = NoPushTask
    /\ gateway = NoGateway

SpecCleanup == InitCleanup /\ [][Next]_vars

\* the push task next to a single collector
MaxPushProbes == 2

MaxPushPeriods == 2

InitPush ==
    /\ InitCommon
    /\ registered_metrics \in LoopTables
    /\ config \in LoopConfigs
    /\ budget = MaxPushProbes
    /\ ls = << >>
    /\ ls_op = NoLabelOp
    /\ push \in { NoPushTask, PushTask(MaxPushPeriods) }
    /\ gateway = NoGateway

NextPush ==
    \/ MainStart
    \/ CollectMetrics
    \/ \E i \in 1..Len(instances) : WsConnect(i)
    \/ \E i \in 1..Len(instances) : WsSubscribe(i)
    \/ \E i \in 1..Len(instances) : WsListen(i)
    \/ \E i \in 1..Len(instances) : WsClose(i)
    \/ \E i \in 1..Len(instances) : HttpFetch(i)
    \/ \E i \in 1..Len(instances) : Wake(i)
    \/ PushPeriod
    \/ PushPost
    \/ PushRetry
    \/ PushWake

SpecPush == InitPush /\ [][NextPush]_vars

\* a polling collector next to the eth_call collector, for one provider
MaxBlockingProbes == 3

BlockingTable ==
    << [blockchain |-> "Ethereum",
        metrics |-> << << "EthCallLatencyMetric", "eth_call_seconds" >>,
                       << "HttpGasPriceLatencyMetric", "gas_price_seconds" >>
                    >>] >>

InitBlocking ==
    /\ InitCommon
    /\ registered_metrics = BlockingTable
    /\ config = << Alpha >>
    /\ budget = MaxBlockingProbes
    /\ ls = << >>
    /\ ls_op = NoLabelOp
    /\ push = NoPushTask
    /\ gateway = NoGateway

NextBlocking ==
    \/ MainStart
    \/ CollectMetrics
    \/ RunsOnLoop(GetMetrics)
    \/ RunsOnLoop(ReturnMetrics)
    \/ \E i \in 1..Len(instances) : RunsOnLoop(GetWeb3Instance(i))
    \/ \E i \in 1..Len(instances) : IsConnected(i)
    \/ \E i \in 1..Len(instances) : RunsOnLoop(SimulateTransaction(i))
    \/ \E i \in 1..Len(instances) :
          /\ instances[i].cls # "EthCallLatencyMetric"
          /\ RunsOnLoop(HttpFetch(i))
    \/ \E i \in 1..Len(instances) : RunsOnLoop(Wake(i))

SpecBlocking == InitBlocking /\ [][NextBlocking]_vars

\* ton-service: its table, a provider of it, and the state its main() has
\* reached when the collect_metrics coroutines wait in their gather
MaxLegacyProbes == 3

TonTable ==
    << [blockchain |-> "TON",
        metrics |-> << << "HttpGetConsensusBlockLatency",
                          "response_latency_seconds" >>,
                       << "HttpGetBlockHeaderLatency",
                          "response_latency_seconds" >> >>] >>

Epsilon == Provider("epsilon", "TON", "eu", None)

\* MetricFactory.register at import, then collect_metrics of
\* ton-service/app/main.py up to its gather
ton_collect_metrics(provider) ==
    LET st == register([registry |-> << >>,
                        class_metric_name |-> [c \in Classes |-> None]],
                       TonTable)
        made == create_metrics(st.registry, st.class_metric_name,
                  [ blockchain_name |-> provider.blockchain,
                    provider |-> provider.name,
                    source_region |-> SourceRegion,
                    target_region |-> provider.region,
                    config |-> MetricConfig(Timeout, Interval),
                    tx_data |-> provider.data ])
    IN  [ registry |-> st.registry,
          class_metric_name |-> st.class_metric_name,
          metrics |-> [k \in 1..Len(made.metrics) |->
                         [made.metrics[k] EXCEPT !.pc = "fetch"]] ]

InitLegacy ==
    /\ lifespan = "running"
    /\ registered_metrics = TonTable
    /\ config = << Epsilon >>
    /\ main_pc = "gather"
    /\ setup = 1
    /\ registry = ton_collect_metrics(Epsilon).registry
    /\ class_metric_name = ton_collect_metrics(Epsilon).class_metric_name
    /\ instances = ton_collect_metrics(Epsilon).metrics
    /\ metrics = ton_collect_metrics(Epsilon).metrics
    /\ log = << >>
    /\ raised = None
    /\ event = PlainEvent(1, "collect_metrics", "ok")
    /\ response = None
    /\ received = << << >>, << >> >>
    /\ published = << << >>, << >> >>
    /\ budget = MaxLegacyProbes
    /\ ls = << >>
    /\ ls_op = NoLabelOp
    /\ push = NoPushTask
    /\ gateway = NoGateway

NextLegacy ==
    \/ TonGetMetrics
    \/ ReturnMetrics
    \/ \E i \in 1..Len(instances) : metric_base_HttpFetch(i)
    \/ \E i \in 1..Len(instances) : metric_base_RetryWake(i)
    \/ \E i \in 1..Len(instances) : Wake(i)

SpecLegacy == InitLegacy /\ [][NextLegacy]_vars

\* a table that registers one collector class for two blockchains under
\* two names
MaxNameProbes == 2

TwoNamesTable ==
    << [blockchain |-> "Ethereum",
        metrics |-> << << "WsBlockLatencyMetric", "block_seconds" >>,
                       << "HttpGasPriceLatencyMetric", "gas_price_seconds" >>
                    >>],
       [blockchain |-> "Base",
        metrics |-> << << "HttpGasPriceLatencyMetric",
                          "base_gas_price_seconds" >> >>] >>

InitNames ==
    /\ InitCommon
    /\ registered_metrics = TwoNamesTable
    /\ config \in { << Alpha, Beta >>, << Beta, Alpha >> }
    /\ budget = MaxNameProbes
    /\ ls = << >>
    /\ ls_op = NoLabelOp
    /\ push = NoPushTask
    /\ gateway = NoGateway

SpecNames == InitNames /\ [][Next]_vars

\* the gateway with up to MaxUpstreams providers
MaxUpstreams == 3

GatewayConfigs ==
    { [k \in 1..n |-> "service" \o ToString(k)] : n \in 0..MaxUpstreams }

InitGateway ==
    /\ InitCommon
    /\ registered_metrics = << >>
    /\ config = << >>
    /\ budget = 0
    /\ ls = << >>
    /\ ls_op = NoLabelOp
    /\ push = NoPushTask
    /\ gateway \in { Gateway(c) : c \in GatewayConfigs }

NextGateway ==
    \/ GatewayGetMetrics
    \/ \E k \in 1..MaxUpstreams : GatewayFetch(k)
    \/ GatewayReturn

SpecGateway == InitGateway /\ [][NextGateway]_vars

\* a label set and the operations on it
InitLabels ==
    /\ InitCommon
    /\ registered_metrics = << >>
    /\ config = << >>
    /\ budget = 0
    /\ ls \in LabelLists
    /\ ls_op = NoLabelOp
    /\ push = NoPushTask
    /\ gateway = NoGateway

NextLabels == UpdateLabel \/ AddLabel \/ GetLabel

SpecLabels == InitLabels /\ [][NextLabels]_vars

(***************************************************************************)
(* Properties of the collection loops (SpecLoop)                           *)
(***************************************************************************)
\* the attributes of a collector object (not the position of its task)
Fields(self) ==
    [ cls |-> self.cls, metric_name |-> self.metric_name,
      labels |-> self.labels, labels_id |-> self.labels_id,
      config |-> self.config, latest_value |-> self.latest_value,
      last_block_hash |-> self.last_block_hash,
      subscription_id |-> self.subscription_id ]

\* the step just taken was a probe step of a collector
ProbeStep ==
    event.step \in { "connect", "subscribe", "listen", "fetch" }

\* the step just taken extracted a latency: fetch_data returned a truthy
\* value, or listen_for_data returned a block that is not a duplicate and
\* whose timestamp could be read
Extracted ==
    \/ /\ event.step = "fetch"
       /\ event.kind = "data"
       /\ Truthy(event.latency[1])
    \/ /\ event.step = "listen"
       /\ event.kind = "block"
       /\ Some(event.hash) # event.before.last_block_hash
       /\ event.latency # None

\* the step just taken ended in a fault: an await raised, the timestamp
\* could not be read, or the extracted latency is above the bound
Faulted ==
    \/ ProbeStep /\ event.kind = "error"
    \/ /\ event.step = "listen"
       /\ event.kind = "block"
       /\ Some(event.hash) # event.before.last_block_hash
       /\ event.latency = None
    \/ Extracted /\ event.latency[1] > MAX_LATENCY_SEC

C2_FaultSetsStatusFailed ==
    Faulted =>
        /\ instances[event.i].latest_value = event.before.latest_value
        /\ StatusOf(instances[event.i]) = "failed"
        /\ \A k \in 1..Len(event.before.labels) :
               KeyValue(event.before.labels[k].key) # "response_status" =>
                   instances[event.i].labels[k] = event.before.labels[k]

\* C3: latest_value is unset or at most MAX_LATENCY_SEC; an extracted value
\* above the bound takes the fault path, sets the status to failed and
\* leaves the value published before; a value of exactly the bound is
\* published.
C3_ValueWithinBound ==
    /\ \A i \in 1..Len(instances) :
          \/ instances[i].latest_value = None
          \/ instances[i].latest_value[1] <= MAX_LATENCY_SEC
    /\ \A i \in 1..Len(published) : \A k \in 1..Len(published[i]) :
          published[i][k].value <= MAX_LATENCY_SEC
    /\ (Extracted /\ event.latency[1] > MAX_LATENCY_SEC) =>
          /\ event.result = "fault"
          /\ StatusOf(instances[event.i]) = "failed"
          /\ instances[event.i].latest_value = event.before.latest_value
          /\ published[event.i] = << >> <=> event.before.latest_value = None
    /\ (Extracted /\ event.latency[1] = MAX_LATENCY_SEC) =>
          /\ event.result = "publish"
          /\ instances[event.i].latest_value = Some(MAX_LATENCY_SEC)

Ids(entries) == [k \in 1..Len(entries) |-> entries[k].id]

RECURSIVE DropRepeats(_)
\* a sequence without the elements equal to their predecessor
DropRepeats(ids) ==
    IF Len(ids) <= 1 THEN ids
    ELSE IF ids[Len(ids)] = ids[Len(ids) - 1]
    THEN DropRepeats(SubSeq(ids, 1, Len(ids) - 1))
    ELSE Append(DropRepeats(SubSeq(ids, 1, Len(ids) - 1)), ids[Len(ids)])

WithinBound(entries) ==
    \A k \in 1..Len(entries) :
        /\ entries[k].latency # None
        /\ entries[k].latency[1] <= MAX_LATENCY_SEC

\* C4: a block notification whose latency is within the bound is published
\* if and only if its identifier differs from that of the notification
\* before it; when all latencies are within the bound the publishes are the
\* notifications without the repeats ([A, A, B] gives A then B); a discarded
\* duplicate neither publishes nor faults: the collector is left as it was.
C4_DuplicateDiscarded ==
    /\ \A i \in 1..Len(instances) :
          (IsWebSocketMetric(instances[i].cls) /\ WithinBound(received[i]))
          =>  Ids(published[i]) = DropRepeats(Ids(received[i]))
    /\ ( /\ event.step = "listen"
         /\ event.kind = "block"
         /\ event.latency # None
         /\ event.latency[1] <= MAX_LATENCY_SEC ) =>
          LET mine == received[event.i]
              repeat == /\ Len(mine) > 1
                        /\ mine[Len(mine) - 1].id = event.hash
          IN  /\ event.result = "publish" <=> ~repeat
              /\ repeat =>
                    /\ event.result = "nodata"
                    /\ Fields(instances[event.i]) = Fields(event.before)

\* C4 witness: [A, A, B] has been received and A, B published
C4_Witness ==
    /\ Len(instances) = 1
    /\ Ids(received[1]) = << "A", "A", "B" >>
    /\ WithinBound(received[1])
    /\ Ids(published[1]) = << "A", "B" >>
    /\ Len(published[1]) = 2

(***************************************************************************)
(* Properties of the registry and of the exposition (Spec)                 *)
(***************************************************************************)
\* the step just taken was the collect_metrics of provider config[event.i]
Collected == event.step = "collect_metrics"

IdentityKeys == { "source_region", "target_region", "blockchain", "provider" }

\* the classes registered for the blockchain of the provider just set up
ClassesFor(provider) ==
    registry[RegistryIndex(registry, provider.blockchain)].classes

\* the list is one collector per registered definition, in registry order,
\* each carrying the identity of the provider
OnePerDefinition(list, provider) ==
    /\ [k \in 1..Len(list) |-> list[k].cls] = ClassesFor(provider)
    /\ \A k \in 1..Len(list) :
          /\ LabelValue(list[k].labels, "source_region") = Some(SourceRegion)
          /\ LabelValue(list[k].labels, "target_region")
                 = Some(provider.region)
          /\ LabelValue(list[k].labels, "blockchain")
                 = Some(provider.blockchain)
          /\ LabelValue(list[k].labels, "provider") = Some(provider.name)
    /\ \A k \in 1..Len(list), n \in 1..Len(list), key \in IdentityKeys :
          LabelValue(list[k].labels, key) = LabelValue(list[n].labels, key)

\* C5 as stated: for every registered blockchain and every provider
\* context create_metrics returns one collector per registered definition,
\* in registry order, all with the same identity labels.
C5_OnePerDefinitionAlways ==
    (Collected /\ RegistryIndex(registry, config[event.i].blockchain) # 0)
    =>  /\ raised = None
        /\ OnePerDefinition(metrics, config[event.i])

\* some constructor raises on this provider: the eth_call collector needs
\* the provider's "data" entry
ConstructorRaises(provider) ==
    /\ provider.data = None
    /\ \E k \in 1..Len(ClassesFor(provider)) :
          ClassesFor(provider)[k] = "EthCallLatencyMetric"

\* C5 amended: for a registered blockchain and a provider context on which
\* no collector constructor raises, create_metrics returns one collector
\* per registered definition, in registry order, all with the same identity
\* labels; when a constructor raises, create_metrics raises and returns no
\* collector.
C5_OnePerDefinition ==
    (Collected /\ RegistryIndex(registry, config[event.i].blockchain) # 0)
    =>  IF ConstructorRaises(config[event.i])
        THEN raised # None /\ metrics = << >> /\ event.result = "raised"
        ELSE /\ raised = None
             /\ event.result = "ok"
             /\ OnePerDefinition(metrics, config[event.i])
             /\ Len(metrics) = Len(ClassesFor(config[event.i]))
             /\ SubSeq(instances, Len(instances) - Len(metrics) + 1,
                       Len(instances))
                    = [k \in 1..Len(metrics) |->
                         [metrics[k] EXCEPT !.pc = FirstAwait(metrics[k].cls)]]

\* C5 witness: the four collectors of the second provider were returned,
\* after the first provider had left two collectors without a task
C5_Witness ==
    /\ Collected
    /\ event.i = 2
    /\ config[2] = Beta
    /\ raised = None
    /\ Len(metrics) = 4
    /\ OnePerDefinition(metrics, Beta)
    /\ Len(instances) = 6

UnregisteredSolana ==
    "No metric classes registered for blockchain 'Solana'. "
        \o "Available blockchains: ['Ethereum', 'Base']"

\* C6: create_metrics for a blockchain that is not a key of the registry
\* raises an error whose message lists every registered blockchain, and
\* leaves the registry and the instance list as they were.
C6_UnregisteredFails ==
    [][ ( /\ event'.step = "collect_metrics"
          /\ setup' = setup + 1
          /\ RegistryIndex(registry, config[setup + 1].blockchain) = 0 )
        =>  /\ raised' = Some(UnregisteredSolana)
            /\ metrics' = << >>
            /\ instances' = instances
            /\ registry' = registry
            /\ class_metric_name' = class_metric_name
            /\ RegistryKeys(registry) = << "Ethereum", "Base" >>
      ]_vars

\* C6 witness: the second provider names Solana; the four collectors of the
\* first are all there is
C6_Witness ==
    /\ Collected
    /\ event.i = 2
    /\ config[2] = Gamma
    /\ raised = Some(UnregisteredSolana)
    /\ metrics = << >>
    /\ Len(instances) = 4
    /\ log # << >>

\* the collectors that have a value, in the order of the instance list
WithValue == { i \in 1..Len(instances) : instances[i].latest_value # None }
NthWithValue(j) ==
    CHOOSE i \in WithValue : Cardinality({ k \in WithValue : k < i }) = j - 1

\* C7: when no collector has a published value the renderer returns no
\* line and GET /metrics returns an empty body.
C7_EmptyBody ==
    (WithValue = { }) =>
        /\ get_all_latest_values(instances) = << >>
        /\ response # None => response = Some("")

\* C7 witness: an empty body is being returned while collectors exist
C7_Witness ==
    /\ response = Some("")
    /\ Len(instances) = 4
    /\ WithValue = { }
    /\ budget < MaxProbes

\* position of a collector's provider in the configuration, and of its
\* class among the definitions registered for its blockchain
ProviderIndex(self) ==
    CHOOSE k \in 1..Len(config) :
        Some(config[k].name) = LabelValue(self.labels, "provider")
DefinitionIndex(self) ==
    CHOOSE k \in 1..Len(ClassesFor(config[ProviderIndex(self)])) :
        ClassesFor(config[ProviderIndex(self)])[k] = self.cls

\* C8: get_all_latest_values returns one line for each collector that has a
\* value and none for the others, in the order of creation: providers in
\* configuration order, definitions in registry order within a provider.
C8_OneLinePerValue ==
    LET lines == get_all_latest_values(instances)
    IN  /\ Len(lines) = Cardinality(WithValue)
        /\ \A j \in 1..Len(lines) :
              lines[j] = get_influx_format(instances[NthWithValue(j)])
        /\ \A a \in 1..Len(instances), b \in 1..Len(instances) :
              a < b =>
                \/ ProviderIndex(instances[a]) < ProviderIndex(instances[b])
                \/ /\ ProviderIndex(instances[a])
                          = ProviderIndex(instances[b])
                   /\ DefinitionIndex(instances[a])
                          < DefinitionIndex(instances[b])
        /\ response # None => response = Some(Join("\n", lines))

\* C8 witness: two lines are served, one of the first provider's second
\* collector and one of the second provider's collector
C8_Witness ==
    /\ response # None
    /\ Len(instances) = 3
    /\ WithValue = { 2, 3 }
    /\ LabelValue(instances[2].labels, "provider") = Some("alpha")
    /\ LabelValue(instances[3].labels, "provider") = Some("beta")
    /\ Len(get_all_latest_values(instances)) = 2
    /\ get_all_latest_values(instances)[1] = get_influx_format(instances[2])

\* C9: every line served by GET /metrics has the form
\* <metric_name>{<rendered label set>} <value>.
C9_PrometheusLines ==
    response # None =>
        response = Some(Join("\n",
            [j \in 1..Cardinality(WithValue) |->
                get_prometheus_format(instances[NthWithValue(j)])]))

(***************************************************************************)
(* Properties of the label set (SpecLabels)                                *)
(***************************************************************************)
Keys(labels) == [k \in 1..Len(labels) |-> labels[k].key]

RenderedPair(label) == KeyValue(label.key) \o "=\"" \o label.value \o "\""

RECURSIVE RenderedInOrder(_)
\* the pairs of a list one after the other, each after the ones before it
RenderedInOrder(labels) ==
    IF labels = << >> THEN ""
    ELSE IF Len(labels) = 1 THEN RenderedPair(labels[1])
    ELSE RenderedInOrder(SubSeq(labels, 1, Len(labels) - 1)) \o ","
             \o RenderedPair(labels[Len(labels)])

\* key a occurs before key b whenever both occur
InOrder(labels, a, b) ==
    (FirstIndex(labels, a) # 0 /\ FirstIndex(labels, b) # 0) =>
        FirstIndex(labels, a) < FirstIndex(labels, b)

\* C10: the labels render as key="value" pairs joined by commas in list
\* order; update_label and add_label leave the order of the keys present as
\* it is and change only the value of the key they name, a new key is
\* appended at the end; source_region, blockchain, provider, api_method and
\* response_status render in that order.
C10_InsertionOrder ==
    /\ get_prometheus_labels(ls) = RenderedInOrder(ls)
    /\ ls_op.op \in { "update_label", "add_label" } =>
          LET before == ls_op.before
              present == FirstIndex(before, ls_op.key) # 0
          IN  /\ present =>
                    /\ Keys(ls) = Keys(before)
                    /\ \A k \in 1..Len(ls) :
                          ls[k].value = IF ls[k].key = ls_op.key
                                        THEN ls_op.value
                                        ELSE before[k].value
              /\ (~present /\ ls_op.op = "add_label") =>
                    ls = before \o << MetricLabel(ls_op.key, ls_op.value) >>
              /\ (~present /\ ls_op.op = "update_label") => ls = before
    /\ InOrder(ls, "source_region", "blockchain")
    /\ InOrder(ls, "blockchain", "provider")
    /\ InOrder(ls, "provider", "api_method")
    /\ InOrder(ls, "api_method", "response_status")

\* C10 witness: the five labels of the example, after api_method was
\* updated, render in the order in which they were added
C10_Witness ==
    /\ ls_op.op = "update_label"
    /\ ls_op.key = "api_method"
    /\ ls_op.before # ls
    /\ get_prometheus_labels(ls) =
          "source_region=\"a\",blockchain=\"Ethereum\",provider=\"p\","
              \o "api_method=\"eth_call\",response_status=\"success\""

\* the values the labels of a list hold for a key
ValuesOf(labels, key) ==
    { labels[k].value : k \in { n \in 1..Len(labels) : labels[n].key = key } }

NoKeyTwice(labels) ==
    \A a \in 1..Len(labels), b \in 1..Len(labels) :
        labels[a].key = labels[b].key => a = b

Step(i) ==
    \/ WsConnect(i) \/ WsSubscribe(i) \/ WsListen(i) \/ WsClose(i)
    \/ HttpFetch(i) \/ Wake(i)

\* the collectors of the k-th provider that have a task
TasksOf(k) ==
    { i \in 1..Len(instances) :
        /\ LabelValue(instances[i].labels, "provider") = Some(config[k].name)
        /\ instances[i].pc # "none" }

\* create_metrics raises on this provider
SetupRaises(provider) ==
    \/ RegistryIndex(registry, provider.blockchain) = 0
    \/ ConstructorRaises(provider)

\* C12: an exception raised while the collectors of a provider are
\* constructed is caught by that provider's collect_metrics and logged,
\* main() stays in its gather; every provider on which nothing raises has
\* one task per registered definition, whatever happened to the providers
\* before and after it, and each of these tasks can take its next step.
C12_ProviderIsolation ==
    /\ (Collected /\ SetupRaises(config[event.i])) =>
          /\ event.result = "raised"
          /\ main_pc = "gather"
          /\ raised # None
          /\ log # << >>
          /\ log[Len(log)] = "Error collecting metrics for "
                                 \o config[event.i].name \o ": " \o raised[1]
          /\ TasksOf(event.i) = { }
    /\ main_pc = "gather" =>
          \A k \in 1..setup :
              ~SetupRaises(config[k]) =>
                  Cardinality(TasksOf(k)) = Len(ClassesFor(config[k]))
    /\ (main_pc = "gather" /\ setup = Len(config) /\ response = None) =>
          \A i \in 1..Len(instances) :
              ( /\ instances[i].pc # "none"
                /\ budget > 0 \/ instances[i].pc
                                    \in { "subscribe", "listen", "close" } )
              => ENABLED Step(i)

\* C12 witness: the second provider names an unregistered blockchain and
\* a collector of the first has published after that
C12_Witness ==
    /\ config = << Beta, Gamma >>
    /\ setup = 2
    /\ Len(log) = 1
    /\ Cardinality(TasksOf(1)) = 4
    /\ TasksOf(2) = { }
    /\ WithValue # { }

\* the definitions the table registers for a blockchain
DefinitionsFor(blockchain) ==
    { d \in { << e, n >> : e \in 1..Len(registered_metrics), n \in 1..4 } :
        /\ registered_metrics[d[1]].blockchain = blockchain
        /\ d[2] <= Len(registered_metrics[d[1]].metrics) }

\* main() and every collect_metrics coroutine have reached their gather
\* or ended, and the application has not been shut down
StartupOver ==
    /\ lifespan = "running"
    /\ main_pc # "start"
    /\ main_pc \in { "gather", "raised_gather" } => setup = Len(config)

\* C13: when an entry of the configuration lacks a required key or names
\* an unregistered blockchain, every other entry still gets one collector
\* task per definition registered for its blockchain, these tasks can take
\* their steps and GET /metrics is served.
C13_OnlyThatProviderAffected ==
    StartupOver =>
        /\ \A k \in 1..Len(config) :
              config[k].missing = { } =>
                  /\ Cardinality(TasksOf(k))
                         = Cardinality(DefinitionsFor(config[k].blockchain))
                  /\ \A i \in TasksOf(k) :
                        (budget > 0 /\ response = None) => ENABLED Step(i)
        /\ response = None => ENABLED GetMetrics

\* C14: a collector task cancelled at an await is not handled as a fault:
\* its attributes, the status label among them, stay as they were, no
\* value is published, and from then on the task only finishes its finally
\* clause: it starts no probe; the shutdown cancels every task of the
\* gather main() is waiting in.
C14_CancellationNotFault ==
    [][ \A i \in 1..Len(instances) :
          /\ ( /\ instances[i].pc \notin CancelledPcs
               /\ instances'[i].pc \in CancelledPcs ) =>
                /\ lifespan = "running" /\ lifespan' = "exited"
                /\ Fields(instances'[i]) = Fields(instances[i])
                /\ published'[i] = published[i]
                /\ budget' = budget
          /\ instances[i].pc \in CancelledPcs =>
                /\ instances'[i].pc \in CancelledPcs
                /\ Fields(instances'[i]) = Fields(instances[i])
                /\ published'[i] = published[i]
                /\ budget' = budget
          /\ ( /\ lifespan = "running" /\ lifespan' = "exited"
               /\ main_pc = "gather"
               /\ instances[i].pc # "none" ) =>
                instances'[i].pc \in CancelledPcs
      ]_vars

\* C14 witness: both tasks have ended after the shutdown, probes were
\* left to start, and a collector still shows the success of its last probe
C14_Witness ==
    /\ lifespan = "exited"
    /\ main_pc = "cancelled"
    /\ Len(instances) = 2
    /\ \A i \in 1..2 : instances[i].pc = "done"
    /\ budget > 0
    /\ \E i \in 1..2 :
          /\ instances[i].latest_value # None
          /\ StatusOf(instances[i]) = "success"

\* C15: after the lifespan has exited no collector task is left in its
\* loop: each has been cancelled.
C15_AllCancelledAtExit ==
    lifespan = "exited" =>
        \A i \in 1..Len(instances) :
            instances[i].pc \in CancelledPcs \cup { "none" }

\* C16: a streaming collector cancelled while it holds a connection calls
\* unsubscribe and awaits close() on it (or was already awaiting that
\* close()) before its task ends; a task ends only from the close() or
\* the sleep of its finally clause.
C16_CleanupOnCancel ==
    [][ \A i \in 1..Len(instances) :
          /\ ( /\ instances[i].pc \notin CancelledPcs
               /\ instances'[i].pc \in CancelledPcs
               /\ instances[i].websocket ) =>
                \/ /\ instances[i].pc \in { "subscribe", "listen" }
                   /\ instances'[i].pc = "cancelled_close"
                \/ /\ instances[i].pc = "close"
                   /\ instances'[i].pc = "done"
          /\ (instances'[i].pc = "done" /\ instances[i].pc # "done") =>
                /\ instances[i].pc \in { "close", "sleep", "cancelled_sleep" }
                /\ instances[i].pc # "close" => ~instances[i].websocket
          /\ instances[i].pc = "cancelled_close" =>
                /\ instances[i].websocket
                /\ instances'[i].pc \in { "cancelled_close", "cancelled_sleep" }
                /\ instances'[i].pc = "cancelled_sleep"
                       => ~instances'[i].websocket
      ]_vars

\* C16 witness: the close() awaited by a collector cancelled while it was
\* listening has returned
C16_Witness ==
    /\ lifespan = "exited"
    /\ event.step = "cancelled_close"
    /\ event.before.websocket
    /\ event.before.pc = "cancelled_close"
    /\ event.before.last_block_hash = None
    /\ ~instances[event.i].websocket
    /\ instances[event.i].pc \in { "cancelled_sleep", "done" }

(***************************************************************************)
(* Properties of the values and of their rendering (Spec, SpecLoop)        *)
(***************************************************************************)
\* C17: GET /metrics, at whatever point of the collectors' loops it is
\* served, raises nothing and changes no collector: the renderer formats
\* only collectors that have a value, the body is the lines it returns,
\* and no step of any loop unsets a value that was set.
C17_RenderingSafe ==
    [][ /\ (response = None /\ response' # None) =>
              /\ ~get_all_latest_values_raises(instances)
              /\ response' = Some(Join("\n", get_all_latest_values(instances)))
              /\ instances' = instances
              /\ published' = published
              /\ received' = received
        /\ \A i \in 1..Len(instances) :
              instances[i].latest_value # None =>
                  instances'[i].latest_value # None
      ]_vars

\* C17 witness: a body is served while one collector, between two probes,
\* holds a value and another has no value
C17_Witness ==
    /\ response # None
    /\ \E i \in 1..Len(instances) :
          /\ instances[i].latest_value # None
          /\ instances[i].pc = "sleep"
    /\ \E j \in 1..Len(instances) :
          /\ instances[j].latest_value = None
          /\ instances[j].pc # "none"

LoopPcs == { "connect", "subscribe", "listen", "close", "fetch", "sleep" }

\* C18: a collector that has published nothing contributes no line; one
\* that has published contributes one line, carrying the value it
\* published last, also while its probes fault; a fault leaves the task in
\* its loop.
C18_FailingCollector ==
    /\ \A i \in 1..Len(instances) :
          /\ published[i] = << >> =>
                get_all_latest_values(<< instances[i] >>) = << >>
          /\ published[i] # << >> =>
                /\ instances[i].latest_value
                       = Some(published[i][Len(published[i])].value)
                /\ get_all_latest_values(<< instances[i] >>)
                       = << get_influx_format(instances[i]) >>
          /\ instances[i].pc \in LoopPcs
    /\ Len(get_all_latest_values(instances))
           = Cardinality({ i \in 1..Len(instances) : published[i] # << >> })
    /\ Faulted =>
          /\ event.result = "fault"
          /\ instances[event.i].pc \in LoopPcs

\* C18 witness: a collector that published 12 has faulted since and still
\* contributes its line
C18_Witness ==
    /\ Len(instances) = 1
    /\ Faulted
    /\ event.before.latest_value = Some(12)
    /\ published[1] # << >>
    /\ instances[1].latest_value = Some(12)
    /\ Len(get_all_latest_values(instances)) = 1

\* C19: latest_value changes only in a step that publishes, to the value
\* extracted in that step; as long as the collector has published nothing
\* its value is unset and both formatters raise, afterwards neither does.
C19_SetOnlyByPublish ==
    [][ /\ \A i \in 1..Len(instances) :
              instances'[i].latest_value # instances[i].latest_value =>
                  /\ event'.i = i
                  /\ event'.result = "publish"
                  /\ Extracted'
                  /\ event'.latency[1] <= MAX_LATENCY_SEC
                  /\ instances'[i].latest_value = event'.latency
                  /\ Len(published'[i]) = Len(published[i]) + 1
        /\ \A i \in 1..Len(instances') :
              IF published'[i] = << >>
              THEN /\ instances'[i].latest_value = None
                   /\ get_prometheus_format_raises(instances'[i])
                   /\ get_influx_format_raises(instances'[i])
              ELSE /\ instances'[i].latest_value # None
                   /\ ~get_prometheus_format_raises(instances'[i])
                   /\ ~get_influx_format_raises(instances'[i])
      ]_vars

\* C19 witness: the first publish of a collector, after three probes
\* that published nothing
C19_Witness ==
    /\ event.result = "publish"
    /\ event.before.latest_value = None
    /\ Len(published[event.i]) = 1
    /\ instances[event.i].latest_value = event.latency
    /\ budget <= MaxLoopProbes - 3

C27_SleepsRetryInterval ==
    \A i \in 1..Len(instances) :
        ( /\ IsWebSocketMetric(instances[i].cls)
          /\ Faulted
          /\ event.i = i
          /\ instances[i].pc = "sleep" ) =>
            instances[i].sleep = Some(instances[i].config.retry_interval)

(***************************************************************************)
(* The push loop (SpecPush)                                                *)
(***************************************************************************)
\* the POSTs and sleeps of the current period are those of a period that
\* stops at the first accepted response and after MAX_RETRIES attempts
PushPeriodShape(task) ==
    /\ task.pc \in { "period", "post", "retry_sleep", "sleep" }
    /\ Len(task.posts) <= MAX_RETRIES
    /\ \A k \in 1..Len(task.posts) :
          /\ task.posts[k].data = task.metrics_text
          /\ task.posts[k].data # ""
          /\ k < Len(task.posts) => ~Accepted(task.posts[k].outcome)
    /\ task.metrics_text = "" => task.posts = << >>
    /\ task.pc = "post" =>
          /\ task.attempt = Len(task.posts) + 1
          /\ task.sleeps = [k \in 1..Len(task.posts) |-> RETRY_DELAY]
    /\ task.pc = "retry_sleep" =>
          /\ task.attempt = Len(task.posts)
          /\ task.attempt < MAX_RETRIES
          /\ ~Accepted(task.posts[Len(task.posts)].outcome)
          /\ task.sleeps = [k \in 1..Len(task.posts) |-> RETRY_DELAY]
    /\ task.pc \in { "sleep", "period" } /\ task.sleeps # << >> =>
          /\ task.sleeps =
                [k \in 1..(Len(task.posts) - 1) |-> RETRY_DELAY]
                    \o << PUSH_INTERVAL >>
          /\ task.posts = << >> <=> task.metrics_text = ""
          /\ task.posts # << >> =>
                \/ Accepted(task.posts[Len(task.posts)].outcome)
                \/ Len(task.posts) = MAX_RETRIES

\* C22: a period POSTs the body rendered at its start, at most MAX_RETRIES
\* times and not after a 200 or 204, sleeps RETRY_DELAY between attempts
\* and PUSH_INTERVAL, not RETRY_DELAY, after the last; an empty body is
\* not POSTed; whatever session.post gives, the task stays in its loop and
\* the sleep of PUSH_INTERVAL leads to the next period.
C22_PushPeriod ==
    [][ push.pc # "none" =>
          /\ PushPeriodShape(push')
          /\ push.pc = "period" /\ push' # push =>
                push'.metrics_text
                    = Join("\n", get_all_latest_values(instances))
          /\ push.pc # "period" => push'.metrics_text = push.metrics_text
          /\ push.pc = "sleep" /\ push' # push =>
                push' = [push EXCEPT !.pc = "period"]
          /\ push.pc = "post" => ENABLED PushPost
      ]_vars

\* C22 witness: a period whose first attempt raised, whose second got a
\* 500 and whose third was accepted, while the collector published
\* another value after the body was rendered
C22_Witness ==
    /\ push.pc = "sleep"
    /\ Len(push.posts) = MAX_RETRIES
    /\ push.posts[1].outcome.kind = "exception"
    /\ push.posts[2].outcome.status = 500
    /\ push.posts[3].outcome.status = 204
    /\ push.sleeps = << RETRY_DELAY, RETRY_DELAY, PUSH_INTERVAL >>
    /\ push.metrics_text # Join("\n", get_all_latest_values(instances))

(***************************************************************************)
(* Ownership of the label sets (Spec)                                      *)
(***************************************************************************)
\* C23: a collector is created with the source region of the application
\* and the region, blockchain and name of its provider, and no step
\* changes one of these four labels, or the keys of a label set or their
\* order; what a step may change is the value of api_method and of
\* response_status.
C23_IdentityFixed ==
    [][ /\ Len(instances') >= Len(instances)
        /\ \A i \in 1..Len(instances) :
              /\ Keys(instances'[i].labels) = Keys(instances[i].labels)
              /\ \A k \in 1..Len(instances[i].labels) :
                    instances'[i].labels[k] # instances[i].labels[k] =>
                        KeyValue(instances[i].labels[k].key)
                            \in { "api_method", "response_status" }
        /\ \A i \in (Len(instances) + 1)..Len(instances') :
              /\ LabelValue(instances'[i].labels, "source_region")
                     = Some(SourceRegion)
              /\ LabelValue(instances'[i].labels, "target_region")
                     = Some(config[setup + 1].region)
              /\ LabelValue(instances'[i].labels, "blockchain")
                     = Some(config[setup + 1].blockchain)
              /\ LabelValue(instances'[i].labels, "provider")
                     = Some(config[setup + 1].name)
      ]_vars

\* C23 witness: a collector of alpha that published has faulted since and
\* carries the identity it was created with
C23_Witness ==
    /\ Faulted
    /\ published[event.i] # << >>
    /\ LabelValue(instances[event.i].labels, "source_region")
           = Some(SourceRegion)
    /\ LabelValue(instances[event.i].labels, "target_region") = Some("eu")
    /\ LabelValue(instances[event.i].labels, "blockchain") = Some("Ethereum")
    /\ LabelValue(instances[event.i].labels, "provider") = Some("alpha")

\* C24: a step changes the attributes of a collector only if it is a
\* probe step of that collector: the value and the labels of every other
\* collector, the siblings made by the same create_metrics call
\* included, are left as they are.
C24_SingleWriter ==
    [][ \A j \in 1..Len(instances) :
          Fields(instances'[j]) # Fields(instances[j]) =>
              /\ event'.i = j
              /\ ProbeStep'
              /\ event'.before = instances[j]
              /\ \A n \in 1..Len(instances) :
                    n # j => instances'[n] = instances[n]
      ]_vars

\* C24 witness: a collector of alpha has published 12 and its sibling, which
\* has no value, faults
C24_Witness ==
    /\ Faulted
    /\ instances[event.i].latest_value = None
    /\ \E j \in 1..Len(instances) :
          /\ j # event.i
          /\ LabelValue(instances[j].labels, "provider")
                 = LabelValue(instances[event.i].labels, "provider")
          /\ instances[j].latest_value = Some(12)

\* collectors i and j were made by the same create_metrics call
SameCall(i, j) ==
    /\ instances[i].labels_id # None
    /\ instances[j].labels_id # None
    /\ instances[i].labels_id[1].call = instances[j].labels_id[1].call

\* C26 as stated: the collectors made by one create_metrics call hold one
\* and the same label set object.
C26_SharedLabelSet ==
    \A i \in 1..Len(instances), j \in 1..Len(instances) :
        SameCall(i, j) => instances[i].labels_id = instances[j].labels_id

\* C26 amended: every collector holds a label set object of its own; the
\* objects of the collectors made by one create_metrics call are built
\* from the same provider context, so they agree on the four identity
\* labels when they are made.
C26_OwnLabelSet ==
    \A i \in 1..Len(instances), j \in 1..Len(instances) :
        /\ i # j => instances[i].labels_id # instances[j].labels_id
        /\ SameCall(i, j) =>
              \A key \in IdentityKeys :
                  LabelValue(instances[i].labels, key)
                      = LabelValue(instances[j].labels, key)

\* C26 witness: create_metrics has returned two collectors for alpha
C26_Witness ==
    /\ Collected
    /\ Len(metrics) = 2
    /\ \E i \in 1..Len(instances), j \in 1..Len(instances) :
          /\ i # j
          /\ SameCall(i, j)
          /\ LabelValue(instances[i].labels, "provider") = Some("alpha")

(***************************************************************************)
(* The registry (Spec)                                                     *)
(***************************************************************************)
IsPrefix(a, b) == Len(a) <= Len(b) /\ SubSeq(b, 1, Len(a)) = a

\* registry new keeps every entry of registry old, in its place, with
\* its classes in their places
Extends(old, new) ==
    /\ Len(old) <= Len(new)
    /\ \A k \in 1..Len(old) :
          /\ new[k].blockchain = old[k].blockchain
          /\ IsPrefix(old[k].classes, new[k].classes)

\* the state MetricFactory.register works on
Registered == [registry |-> registry, class_metric_name |-> class_metric_name]

\* tables handed to a further call of register
RegisterTables == { EvmRegisteredMetrics, SmallRegisteredMetrics }

\* the classes of a table entry, in the order of the entry
ClassesOf(entry) == [n \in 1..Len(entry.metrics) |-> entry.metrics[n][1]]

\* C25: main() registers the table before any collector exists, the
\* registry then lists the blockchains and, for each, the definitions in
\* the order of the table; no later step changes the registry, creating
\* collectors leaves it as it is, and a further call of register would
\* only append to it.
C25_RegistryAppendOnly ==
    [][ /\ registry' # registry =>
              /\ main_pc = "start"
              /\ main_pc' = "gather"
              /\ instances = << >>
              /\ instances' = << >>
              /\ setup' = 0
              /\ registry' =
                    [k \in 1..Len(registered_metrics) |->
                       [blockchain |-> registered_metrics[k].blockchain,
                        classes |-> ClassesOf(registered_metrics[k])]]
        /\ Len(instances') > Len(instances) =>
              /\ main_pc \in { "gather", "raised_gather" }
              /\ registry' = registry
        /\ Extends(registry, registry')
        /\ \A table \in RegisterTables :
              Extends(registry', register(Registered', table).registry)
      ]_vars

\* C25 witness: the collectors of two providers have been created from a
\* registry of two blockchains
C25_Witness ==
    /\ main_pc = "gather"
    /\ setup = 2
    /\ Len(registry) = 2
    /\ Len(registry[1].classes) >= 2
    /\ Len(instances) >= 3

\* C30: registering a table a second time leaves the registry, and the
\* collectors create_metrics returns for a provider, as they were after
\* the first time.
C30_RegisterIdempotent ==
    main_pc = "gather" =>
        LET twice == register(Registered, registered_metrics)
        IN  /\ twice.registry = registry
            /\ \A k \in 1..Len(config) :
                  collect_metrics(config[k], twice.registry,
                                  twice.class_metric_name).metrics
                      = collect_metrics(config[k], registry,
                                        class_metric_name).metrics

CleanupFaulted ==
    event.step \in { "unsubscribe", "close" } /\ event.kind = "error"

\* C29: a fault of unsubscribe or close leaves the attributes of the
\* collector, its value and its status among them, as they were; the
\* collector goes on to the sleep of config.interval, which can complete,
\* and from there to the next connect.
C29_CleanupFaultLogged ==
    CleanupFaulted =>
        /\ Fields(instances[event.i]) = Fields(event.before)
        /\ instances[event.i].latest_value = event.before.latest_value
        /\ StatusOf(instances[event.i]) = StatusOf(event.before)
        /\ instances[event.i].pc \in { "sleep", "connect" }
        /\ instances[event.i].pc = "sleep" =>
              /\ instances[event.i].sleep
                     = Some(instances[event.i].config.interval)
              /\ (budget > 0 /\ response = None) => ENABLED Wake(event.i)

\* C29 witness: close() raised in an iteration that had published 12, and
\* the collector, with its value, is about to connect again
C29_Witness ==
    /\ CleanupFaulted
    /\ event.step = "close"
    /\ published[event.i] # << >>
    /\ instances[event.i].latest_value = Some(12)
    /\ StatusOf(instances[event.i]) = "success"
    /\ instances[event.i].pc = "connect"

(***************************************************************************)
(* Properties of the event loop (SpecBlocking)                             *)
(***************************************************************************)
\* the collector is waiting for the network in a step of its probe
WaitsOnNetwork(self) ==
    \/ self.pc \in { "connect", "subscribe", "listen", "is_connected",
                     "eth_call" }
    \/ self.pc = "fetch" /\ self.cls # "EthCallLatencyMetric"

\* C31: while a collector waits for the network in a step of its probe,
\* GET /metrics is served and every other collector whose sleep can end
\* takes its next step.
C31_NoCollectorStallsTheLoop ==
    \A i \in 1..Len(instances) :
        (Running(i) /\ WaitsOnNetwork(instances[i])) =>
            /\ ENABLED RunsOnLoop(GetMetrics)
            /\ \A j \in 1..Len(instances) :
                  (j # i /\ instances[j].pc = "sleep" /\ budget > 0) =>
                      ENABLED RunsOnLoop(Wake(j))

(***************************************************************************)
(* Properties of a collector before its first probe (Spec)                 *)
(***************************************************************************)
\* C32: from its creation until a probe of it has completed, a collector's
\* response_status is neither "success" nor "failed".
C32_StatusUnsetBeforeFirstProbe ==
    event.step = "collect_metrics" =>
        \A i \in 1..Len(instances) :
            LabelValue(instances[i].labels, "response_status")
                \notin { Some("success"), Some("failed") }

(***************************************************************************)
(* Properties of the engine of ton-service (SpecLegacy)                    *)
(***************************************************************************)
\* C33: in the engine of common/metric_base.py a probe that publishes
\* after a faulted probe stores its value and sets response_status back
\* to "success".
C33_SuccessAfterFaultResetsStatus ==
    ( /\ event.step = "fetch"
      /\ event.result = "publish"
      /\ StatusOf(event.before) = "failed" ) =>
        /\ instances[event.i].latest_value = event.latency
        /\ StatusOf(instances[event.i]) = "success"

(***************************************************************************)
(* Properties of the names of the collectors (SpecNames)                   *)
(***************************************************************************)
\* the table gives that name to that class in the entry of that blockchain
NamedInEntry(table, blockchain, cls, name) ==
    \E e \in 1..Len(table) :
        /\ table[e].blockchain = blockchain
        /\ \E m \in 1..Len(table[e].metrics) :
              table[e].metrics[m] = << cls, name >>

\* C34: the metric_name of a collector created for a blockchain is the
\* name its class was given in the entry of that blockchain, also when the
\* class is registered for another blockchain under another name.
C34_NameOfOwnEntry ==
    \A i \in 1..Len(instances) :
        NamedInEntry(registered_metrics,
                     LabelValue(instances[i].labels, "blockchain")[1],
                     instances[i].cls, instances[i].metric_name)

(***************************************************************************)
(* Properties of the instance list (Spec)                                  *)
(***************************************************************************)
\* C35: every collector in BaseMetric._instances has a collect_metric task,
\* also when the construction of a later definition for the same provider
\* raised.
C35_EveryInstanceHasTask ==
    \A i \in 1..Len(instances) : instances[i].pc # "none"

(***************************************************************************)
(* Properties of the identifier a streaming collector last saw (SpecLoop)  *)
(***************************************************************************)
\* C36: last_block_hash of a streaming collector is the identifier of the
\* item it published last, and unset while it has published nothing: an
\* item whose extraction or sanity check faulted is not remembered.
C36_LastSeenIsLastPublished ==
    \A i \in 1..Len(instances) :
        IsWebSocketMetric(instances[i].cls) =>
            instances[i].last_block_hash =
                IF published[i] = << >> THEN None
                ELSE Some(published[i][Len(published[i])].id)

(***************************************************************************)
(* Properties of a cancelled collector (SpecLife)                          *)
(***************************************************************************)
\* C37: a collector cancelled during a probe ends after its cleanup: once
\* the cancellation has been delivered its task waits in no sleep.
C37_NoSleepAfterCancel ==
    \A i \in 1..Len(instances) :
        instances[i].pc \in CancelledPcs => instances[i].sleep = None

(***************************************************************************)
(* Properties of a probe that yields no data (SpecLoop)                    *)
(***************************************************************************)
\* the step is a read of collector i (listen_for_data or fetch_data
\* returned) that yielded no data
NoDataStep(i) ==
    /\ event' # event
    /\ event'.i = i
    /\ event'.step \in { "listen", "fetch" }
    /\ event'.result = "nodata"

\* C38: a read that yields no data changes neither the attributes of the
\* collector nor what it has published; the polling loop goes from it to
\* the interval sleep, the streaming loop to the cleanup and from there to
\* the interval sleep, and a probe starts only from that sleep; a
\* connection is read once after the subscription, so at most one value is
\* published on it.
C38_NoDataProbe ==
    [][ \A i \in 1..Len(instances) :
          /\ NoDataStep(i) =>
                /\ Fields(instances'[i]) = Fields(instances[i])
                /\ published' = published
                /\ instances'[i].pc =
                       IF event'.step = "listen" THEN "close" ELSE "sleep"
          /\ instances[i].pc = "listen" =>
                \/ instances'[i] = instances[i]
                \/ instances'[i].pc = "close"
          /\ instances[i].pc = "close" =>
                \/ instances'[i] = instances[i]
                \/ instances'[i].pc = "sleep"
          /\ (instances[i].pc # "sleep" /\ instances'[i].pc = "sleep") =>
                instances'[i].sleep = Some(instances[i].config.interval)
          /\ ( /\ instances[i].pc # instances'[i].pc
               /\ instances'[i].pc = FirstAwait(instances[i].cls) ) =>
                instances[i].pc = "sleep"
          /\ published'[i] # published[i] =>
                /\ Len(published'[i]) = Len(published[i]) + 1
                /\ instances[i].pc \in { "listen", "fetch" }
      ]_vars

\* C38 witness: a collector that had published read a duplicate of the
\* block it saw last, closed the connection and is in its interval sleep,
\* its value as before
C38_Witness ==
    /\ event.step = "close"
    /\ event.before.latest_value # None
    /\ event.before.last_block_hash # None
    /\ Len(received[event.i]) >= 2
    /\ received[event.i][Len(received[event.i])].id =
           received[event.i][Len(received[event.i]) - 1].id
    /\ Len(published[event.i]) = 1
    /\ instances[event.i].pc = "sleep"
    /\ instances[event.i].sleep = Some(Interval)
    /\ instances[event.i].latest_value = event.before.latest_value

AllUpstreamsOk ==
    \A k \in 1..Len(gateway.providers) :
        /\ gateway.replies[k] # None
        /\ gateway.replies[k][1].kind = "response"
        /\ gateway.replies[k][1].status = 200

\* C40: the gateway answers 200 exactly when every upstream fetch returned
\* status 200, and the body is then the upstream texts joined by newlines
\* in the order of the configuration, whatever the order of completion;
\* otherwise it answers 500 and returns no body.
C40_AllOrNothing ==
    gateway.pc = "replied" =>
        /\ gateway.reply # None
        /\ gateway.reply[1].status \in { 200, 500 }
        /\ gateway.reply[1].status = 200 <=> AllUpstreamsOk
        /\ gateway.reply[1].status = 200 =>
              gateway.reply[1].body =
                  Some(Join("\n", [k \in 1..Len(gateway.providers) |->
                                     gateway.replies[k][1].text]))
        /\ gateway.reply[1].status = 500 => gateway.reply[1].body = None

\* C40 witness: three upstreams answered 200, the third first and the
\* first last, and the body holds their texts in configuration order
C40_Witness ==
    /\ gateway.pc = "replied"
    /\ Len(gateway.providers) = 3
    /\ gateway.order = << 3, 2, 1 >>
    /\ gateway.reply =
           Some(GatewayReply(200,
                Some("service1_up 1.0\nservice2_up 1.0\nservice3_up 1.0")))

====
